---- MODULE Spec2Model ----
(***************************************************************************)
(* A model of qdrant_vsql/filtering.py: the compiler where2filter from a   *)
(* SQL-like WHERE clause to a Qdrant Filter (must / should / must_not).    *)
(*                                                                         *)
(* The input is modelled as a sequence of tokens.  The structural tokens   *)
(* are "NOT", "AND", "OR", "(" and ")".  A leaf token stands for one whole *)
(* condition `field <op> value(s)` and is written as its operator; the     *)
(* k-th leaf of an input is a condition on the k-th field, so every leaf   *)
(* is a distinct condition object, as in the Python code, where each       *)
(* condition of the parse tree is visited once and yields a fresh object.  *)
(*                                                                         *)
(* Python values are modelled as records tagged by "type": None, str,      *)
(* int, float, bool, list, the condition models and Filter.                *)
(*                                                                         *)
(* The grammar is modelled twice.  At the level of tokens (Spec and        *)
(* SpecChain) a leaf token stands for a whole condition, which keeps the   *)
(* Boolean structure of long inputs within reach.  At the level of         *)
(* characters (SpecLeaf and SpecRange) the PEG is followed rule by rule,   *)
(* regular expressions included, and the literals of a condition are       *)
(* decoded as the visitor decodes them.  Both levels build the same parse  *)
(* trees and share the visitor.                                            *)
(***************************************************************************)
EXTENDS Integers, Sequences, FiniteSets, TLC

VARIABLES input, pc, result

vars == <<input, pc, result>>

\* Longest input, in tokens, of the specification Spec.
MaxTokens == 8

\* Longest chain c1 op c2 op ... op cn, in conditions, of SpecChain.
MaxChain == 3

\* Longest list literal, in values, of SpecLeaf.
MaxList == 2

\* Most conditions joined by AND in an input of SpecRange.
MaxConds == 2

(***************************************************************************)
(* Tokens                                                                  *)
(***************************************************************************)

\* Leaf conditions the mapper wraps in must.
PositiveOps == {"=", "IN", "NOT IN", "LIKE", ">", ">=", "<", "<=", "BETWEEN",
                "IS NULL", "IS EMPTY"}

\* Leaf conditions the mapper wraps in must_not.
NegatedOps == {"!=", "<>", "NOT BETWEEN", "IS NOT NULL"}

LeafOps == PositiveOps \cup NegatedOps

\* The leaves the inputs of Spec are built from: one of each form.
SpecLeafOps == {"=", "!="}

LogicalOps == {"AND", "OR"}

\* The index (1-based) of the leaf at position i among the leaves of toks.
LeafIndex(toks, i) == Cardinality({j \in 1..i : toks[j] \in LeafOps})

NumLeaves(toks) == LeafIndex(toks, Len(toks))

(***************************************************************************)
(* Python values                                                           *)
(***************************************************************************)

NoneVal == [type |-> "None"]

\* A str: its text is the sequence of its characters.
Str(s) == [type |-> "str", text |-> s]

\* An int.
IntVal(n) == [type |-> "int", val |-> n]

\* A float with a finite decimal expansion: num / 10^scale, num not a
\* multiple of 10 unless scale = 0.
FloatVal(num, scale) == [type |-> "float", num |-> num, scale |-> scale]

BoolVal(b) == [type |-> "bool", val |-> b]

List(s) == [type |-> "list", items |-> s]

IsNone(x) == x.type = "None"

IsList(x) == x.type = "list"

IsStr(x) == x.type = "str"

\* Python truthiness.
Truthy(x) ==
    CASE x.type = "None" -> FALSE
      [] x.type = "list" -> Len(x.items) > 0
      [] x.type = "str" -> Len(x.text) > 0
      [] x.type = "int" -> x.val # 0
      [] x.type = "float" -> x.num # 0
      [] x.type = "bool" -> x.val
      [] OTHER -> TRUE

\* models.Filter(must=..., should=..., must_not=...); each bucket is None or a list.
Filter(must, should, must_not) ==
    [type |-> "Filter", must |-> must, should |-> should, must_not |-> must_not]

IsFilter(x) == x.type = "Filter"

QDRANT_FILTER_TYPES ==
    {"FieldCondition", "IsEmptyCondition", "IsNullCondition", "HasIdCondition",
     "HasVectorCondition", "NestedCondition", "Filter"}

IsQdrantType(x) == x.type \in QDRANT_FILTER_TYPES

\* A condition object has an identity (oid), which id() returns; it is
\* set when the visitor of a parse-tree node creates the object.
\* models.FieldCondition(key=key, match=... | range=... | values_count=...)
FieldCondition(key, attr, model) ==
    [type |-> "FieldCondition", key |-> key, attr |-> attr, model |-> model,
     oid |-> 0]

\* models.IsNullCondition(is_null=models.PayloadField(key=key))
IsNullCondition(key) == [type |-> "IsNullCondition", key |-> key, oid |-> 0]

\* models.IsEmptyCondition(is_empty=models.PayloadField(key=key))
IsEmptyCondition(key) == [type |-> "IsEmptyCondition", key |-> key, oid |-> 0]

\* models.HasIdCondition(has_id=has_id)
HasIdCondition(has_id) == [type |-> "HasIdCondition", has_id |-> has_id, oid |-> 0]

\* An exception raised by the parser or by a visitor method.
ErrorVal == [type |-> "Error"]

IsError(x) == x.type = "Error"

(***************************************************************************)
(* The grammar (a PEG), at the level of tokens.                            *)
(*   expression = factor (ws (OR / AND) ws factor)*                        *)
(*   factor     = (NOT ws)? (condition / ("(" ws expression ws ")"))       *)
(* A parse result is [ok, pos, node]: pos is the next unread position.     *)
(***************************************************************************)

ParseFail == [ok |-> FALSE, pos |-> 0, node |-> NoneVal]

RECURSIVE ParseExpression(_, _)
RECURSIVE ParseFactor(_, _)
RECURSIVE ParseRest(_, _, _)

\* factor: at most one NOT, then a condition or a parenthesized expression.
\* The optional NOT, once matched, is not given back when what follows fails.
ParseFactor(toks, i) ==
    LET hasNot == i <= Len(toks) /\ toks[i] = "NOT"
        j == IF hasNot THEN i + 1 ELSE i
    IN  IF j > Len(toks) THEN ParseFail
        ELSE IF toks[j] \in LeafOps
        THEN [ok |-> TRUE, pos |-> j + 1,
              node |-> [rule |-> "factor", not_part |-> hasNot,
                        body |-> [rule |-> "condition", op |-> toks[j],
                                  key |-> LeafIndex(toks, j),
                                  oid |-> LeafIndex(toks, j)]]]
        ELSE IF toks[j] = "("
        THEN LET e == ParseExpression(toks, j + 1)
             IN  IF e.ok /\ e.pos <= Len(toks) /\ toks[e.pos] = ")"
                 THEN [ok |-> TRUE, pos |-> e.pos + 1,
                       node |-> [rule |-> "factor", not_part |-> hasNot,
                                 body |-> [rule |-> "group", expr |-> e.node]]]
                 ELSE ParseFail
        ELSE ParseFail

\* (ws (OR / AND) ws factor)*: greedy; a trailing operator with no factor
\* after it is left unread.
ParseRest(toks, i, acc) ==
    IF i <= Len(toks) /\ toks[i] \in LogicalOps
    THEN LET f == ParseFactor(toks, i + 1)
         IN  IF f.ok
             THEN ParseRest(toks, f.pos,
                            Append(acc, [op |-> toks[i], factor |-> f.node]))
             ELSE [pos |-> i, rest |-> acc]
    ELSE [pos |-> i, rest |-> acc]

ParseExpression(toks, i) ==
    LET f == ParseFactor(toks, i)
    IN  IF ~f.ok THEN ParseFail
        ELSE LET r == ParseRest(toks, f.pos, <<>>)
             IN  [ok |-> TRUE, pos |-> r.pos,
                  node |-> [rule |-> "expression", first |-> f.node,
                            rest |-> r.rest]]

\* qdrant_filter_grammar.parse(where_clause): the whole input must match.
GrammarParse(toks) ==
    LET e == ParseExpression(toks, 1)
    IN  IF e.ok /\ e.pos = Len(toks) + 1 THEN e ELSE ParseFail

(***************************************************************************)
(* Helpers of the visitor.  Inside the helpers a Python list under         *)
(* construction is a TLA+ sequence; it becomes List(..) when it is stored. *)
(***************************************************************************)

\* ensure_list(val): None -> [], a list -> itself, anything else -> [val].
ensure_list(val) ==
    IF IsNone(val) THEN <<>>
    ELSE IF IsList(val) THEN val.items
    ELSE <<val>>

\* An `lst or None` that forgets `or None`: the empty list is stored as it is.
OrNone_keep(lst) == List(lst)

\* `lst or None`
OrNone(lst) == IF lst = <<>> THEN NoneVal ELSE List(lst)

\* id(x).  Every condition object carries the index of its own leaf, and
\* every Filter holds at least one condition, so two entries of one list
\* are the same object exactly when they are equal as values.
id(x) == x

\* dedup(lst): drop every entry whose id was seen before, keeping the order.
dedup(lst) ==
    LET out[i \in 0..Len(lst)] ==
            IF i = 0 THEN <<>>
            ELSE IF \E j \in 1..(i - 1) : id(lst[j]) = id(lst[i])
                 THEN out[i - 1]
                 ELSE Append(out[i - 1], lst[i])
    IN  out[Len(lst)]

RECURSIVE _clean_filter_list(_)

\* _clean_filter_list(lst): keep the Qdrant objects, flatten nested lists,
\* drop None and everything else ("(", ")", ...).
_clean_filter_list(lst) ==
    IF lst = <<>> THEN <<>>
    ELSE LET x == Head(lst)
             rest == _clean_filter_list(Tail(lst))
         IN  IF IsNone(x) THEN rest
             ELSE IF IsQdrantType(x) THEN <<x>> \o rest
             ELSE IF IsList(x) THEN _clean_filter_list(x.items) \o rest
             ELSE rest

RECURSIVE _unwrap_group(_)
RECURSIVE UnwrapFirst(_)

\* The list branch of _unwrap_group: the first entry that unwraps to
\* something other than None.
UnwrapFirst(vals) ==
    IF vals = <<>> THEN NoneVal
    ELSE LET unwrapped == _unwrap_group(Head(vals))
         IN  IF ~IsNone(unwrapped) THEN unwrapped ELSE UnwrapFirst(Tail(vals))

\* _unwrap_group(val): a Filter whose only content is one must entry, or one
\* should entry, unwraps to that entry (recursively); a one-entry must_not
\* does not unwrap.
_unwrap_group(val) ==
    IF IsFilter(val)
    THEN LET must == ensure_list(val.must)
             should == ensure_list(val.should)
             must_not == ensure_list(val.must_not)
         IN  IF must # <<>> /\ Len(must) = 1 /\ should = <<>> /\ must_not = <<>>
             THEN _unwrap_group(must[1])
             ELSE IF should # <<>> /\ Len(should) = 1 /\ must = <<>>
                     /\ must_not = <<>>
             THEN _unwrap_group(should[1])
             ELSE val
    ELSE IF IsQdrantType(val) THEN val
    ELSE IF IsList(val) THEN UnwrapFirst(val.items)
    ELSE NoneVal

(***************************************************************************)
(* The Boolean normalizer: merge_filters of visit_expression.              *)
(***************************************************************************)

\* A collect_conditions that inserts at the front of the targets instead of
\* appending.
collect_conditions_prepend(f, target_must, target_must_not) ==
    IF IsFilter(f)
    THEN LET m1 == IF Truthy(f.must)
                   THEN ensure_list(f.must) \o target_must
                   ELSE target_must
             mn1 == IF Truthy(f.must_not)
                    THEN ensure_list(f.must_not) \o target_must_not
                    ELSE target_must_not
             m2 == IF Truthy(f.should) THEN <<f>> \o m1 ELSE m1
         IN  [must |-> m2, must_not |-> mn1]
    ELSE IF ~IsNone(f)
    THEN [must |-> <<f>> \o target_must, must_not |-> target_must_not]
    ELSE [must |-> target_must, must_not |-> target_must_not]

\* A collect_conditions that flattens a pure OR filter: its should entries
\* are added to must one by one.
collect_conditions_flatten(f, target_must, target_must_not) ==
    IF IsFilter(f)
    THEN LET m1 == IF Truthy(f.must)
                   THEN target_must \o ensure_list(f.must)
                   ELSE target_must
             mn1 == IF Truthy(f.must_not)
                    THEN target_must_not \o ensure_list(f.must_not)
                    ELSE target_must_not
             m2 == IF Truthy(f.should) /\ ~Truthy(f.must) /\ ~Truthy(f.must_not)
                   THEN m1 \o ensure_list(f.should)
                   ELSE IF Truthy(f.should)
                   THEN Append(m1, f)
                   ELSE m1
         IN  [must |-> m2, must_not |-> mn1]
    ELSE IF ~IsNone(f)
    THEN [must |-> Append(target_must, f), must_not |-> target_must_not]
    ELSE [must |-> target_must, must_not |-> target_must_not]

\* collect_conditions(f, target_must, target_must_not): the two target
\* lists after the call.
collect_conditions(f, target_must, target_must_not) ==
    IF IsFilter(f)
    THEN LET m1 == IF Truthy(f.must)
                   THEN target_must \o ensure_list(f.must)
                   ELSE target_must
             mn1 == IF Truthy(f.must_not)
                    THEN target_must_not \o ensure_list(f.must_not)
                    ELSE target_must_not
             m2 == IF Truthy(f.should) /\ ~Truthy(f.must) /\ ~Truthy(f.must_not)
                   THEN Append(m1, f)
                   ELSE IF Truthy(f.should)
                           /\ (Truthy(f.must) \/ Truthy(f.must_not))
                   THEN Append(m1, f)
                   ELSE m1
         IN  [must |-> m2, must_not |-> mn1]
    ELSE IF ~IsNone(f)
    THEN [must |-> Append(target_must, f), must_not |-> target_must_not]
    ELSE [must |-> target_must, must_not |-> target_must_not]

\* A flatten_should that never flattens: an OR filter is added whole.
flatten_should_nested(f) ==
    LET g == _unwrap_group(f)
    IN  IF ~IsNone(g) THEN <<g>> ELSE <<>>

\* A flatten_should that does not unwrap its operand first.
flatten_should_whole(f) ==
    IF IsFilter(f)
    THEN IF Truthy(f.should) /\ ~Truthy(f.must) /\ ~Truthy(f.must_not)
         THEN ensure_list(f.should)
         ELSE <<f>>
    ELSE IF ~IsNone(f) THEN <<f>>
    ELSE <<>>

\* flatten_should(f): what an operand of OR contributes to should.
flatten_should(f) ==
    LET g == _unwrap_group(f)
    IN  IF IsFilter(g)
        THEN IF Truthy(g.should) /\ ~Truthy(g.must) /\ ~Truthy(g.must_not)
             THEN ensure_list(g.should)
             ELSE <<g>>
        ELSE IF ~IsNone(g) THEN <<g>>
        ELSE <<>>

\* A merge_filters whose OR branch takes the right operand first.
merge_filters_swapped(op, left, right) ==
    IF op = "AND"
    THEN LET c1 == collect_conditions(left, <<>>, <<>>)
             c2 == collect_conditions(right, c1.must, c1.must_not)
             must_conditions == dedup(_clean_filter_list(c2.must))
             must_not_conditions == dedup(_clean_filter_list(c2.must_not))
         IN  Filter(OrNone(must_conditions), NoneVal,
                    OrNone(must_not_conditions))
    ELSE LET should == dedup(_clean_filter_list(
                           flatten_should(right) \o flatten_should(left)))
         IN  Filter(NoneVal, OrNone(should), NoneVal)

\* merge_filters(op, left, right): the AND branch, then the OR branch.
merge_filters(op, left, right) ==
    IF op = "AND"
    THEN LET c1 == collect_conditions(left, <<>>, <<>>)
             c2 == collect_conditions(right, c1.must, c1.must_not)
             must_conditions == dedup(_clean_filter_list(c2.must))
             must_not_conditions == dedup(_clean_filter_list(c2.must_not))
         IN  Filter(OrNone(must_conditions), NoneVal,
                    OrNone(must_not_conditions))
    ELSE LET should == dedup(_clean_filter_list(
                           flatten_should(left) \o flatten_should(right)))
         IN  Filter(NoneVal, OrNone(should), NoneVal)

\* `if result.b: result.b = _clean_filter_list(result.b);
\*  if not result.b: result.b = None` for one bucket b.
CleanBucket(b) ==
    IF Truthy(b)
    THEN LET cleaned == _clean_filter_list(ensure_list(b))
         IN  IF cleaned = <<>> THEN NoneVal ELSE List(cleaned)
    ELSE b

\* The loop `for op, term in rest: result = merge_filters(op_str, result, term)`;
\* op_str is op.upper().
FoldRest(first, rest) ==
    LET acc[i \in 0..Len(rest)] ==
            IF i = 0 THEN first
            ELSE merge_filters(rest[i].op, acc[i - 1], rest[i].term)
    IN  acc[Len(rest)]

\* The end of visit_expression: a result that is not a Filter is wrapped in
\* must; the buckets of a Filter are cleaned.
FinishExpression(folded) ==
    IF ~IsFilter(folded)
    THEN Filter(List(_clean_filter_list(<<folded>>)), NoneVal, NoneVal)
    ELSE Filter(CleanBucket(folded.must), CleanBucket(folded.should),
                CleanBucket(folded.must_not))

\* A visit_expression that folds right to left: a op b op c as a op (b op c).
visit_expression_rightfold(first, rest) ==
    LET n == Len(rest)
        term(i) == IF i = 0 THEN first ELSE rest[i].term
        acc[k \in 0..n] ==
            IF k = 0 THEN term(n)
            ELSE merge_filters(rest[n - k + 1].op, term(n - k), acc[k - 1])
    IN  FinishExpression(acc[n])

\* visit_expression: visited_children = [first, rest]; rest is the sequence
\* of [op, term] pairs.
visit_expression(first, rest) == FinishExpression(FoldRest(first, rest))

\* A visit_factor without the double-negation branch: NOT always wraps its
\* term in must_not.
visit_factor_wrap(not_part, child) ==
    LET term == _unwrap_group(child)
    IN  IF Truthy(not_part)
        THEN Filter(NoneVal, NoneVal,
                    IF ~IsNone(term) THEN List(<<term>>) ELSE NoneVal)
        ELSE term

\* A visit_factor that negates a composite term by moving its entries into
\* must_not one by one.
visit_factor_spread(not_part, child) ==
    LET term == _unwrap_group(child)
    IN  IF Truthy(not_part)
        THEN IF IsFilter(term)
             THEN IF Truthy(term.must_not) /\ ~Truthy(term.must)
                     /\ ~Truthy(term.should)
                  THEN Filter(term.must_not, NoneVal, NoneVal)
                  ELSE Filter(NoneVal, NoneVal,
                              IF Truthy(term.should) THEN term.should
                              ELSE term.must)
             ELSE Filter(NoneVal, NoneVal,
                         IF ~IsNone(term) THEN List(<<term>>) ELSE NoneVal)
        ELSE term

\* A visit_factor that keeps the should of the filter it negates beside the
\* negation.
visit_factor_beside(not_part, child) ==
    LET term == _unwrap_group(child)
    IN  IF Truthy(not_part)
        THEN IF IsFilter(term)
             THEN IF Truthy(term.must_not) /\ ~Truthy(term.must)
                     /\ ~Truthy(term.should)
                  THEN Filter(term.must_not, NoneVal, NoneVal)
                  ELSE Filter(NoneVal, term.should, List(<<term>>))
             ELSE Filter(NoneVal, NoneVal,
                         IF ~IsNone(term) THEN List(<<term>>) ELSE NoneVal)
        ELSE term

\* visit_factor: visited_children = [not_part, child].
visit_factor(not_part, child) ==
    LET term == _unwrap_group(child)
    IN  IF Truthy(not_part)
        THEN IF IsFilter(term)
             THEN IF Truthy(term.must_not) /\ ~Truthy(term.must)
                     /\ ~Truthy(term.should)
                  THEN Filter(term.must_not, NoneVal, NoneVal)
                  ELSE Filter(NoneVal, NoneVal, List(<<term>>))
             ELSE Filter(NoneVal, NoneVal,
                         IF ~IsNone(term) THEN List(<<term>>) ELSE NoneVal)
        ELSE term

\* A local variable: body sees the value under the name it gives it.
Bind(value, body(_)) == body(value)

(***************************************************************************)
(* Characters.  A text is a sequence of one-character strings.             *)
(***************************************************************************)

\* str.lower() on one character.
LowerOf ==
    [A |-> "a", B |-> "b", C |-> "c", D |-> "d", E |-> "e", F |-> "f",
     G |-> "g", H |-> "h", I |-> "i", J |-> "j", K |-> "k", L |-> "l",
     M |-> "m", N |-> "n", O |-> "o", P |-> "p", Q |-> "q", R |-> "r",
     S |-> "s", T |-> "t", U |-> "u", V |-> "v", W |-> "w", X |-> "x",
     Y |-> "y", Z |-> "z"]

UpperLetters == DOMAIN LowerOf

LowerLetters == {LowerOf[c] : c \in UpperLetters}

ToLower(c) == IF c \in UpperLetters THEN LowerOf[c] ELSE c

Lower(s) == [i \in 1..Len(s) |-> ToLower(s[i])]

\* An upper() that leaves the text as it is.
Upper_verbatim(s) == s

\* str.upper() on one character and on a text.
ToUpper(c) ==
    IF c \in LowerLetters THEN CHOOSE u \in UpperLetters : LowerOf[u] = c ELSE c

Upper(s) == [i \in 1..Len(s) |-> ToUpper(s[i])]

Digits == {"0", "1", "2", "3", "4", "5", "6", "7", "8", "9"}

DigitValue(c) ==
    CASE c = "0" -> 0 [] c = "1" -> 1 [] c = "2" -> 2 [] c = "3" -> 3
      [] c = "4" -> 4 [] c = "5" -> 5 [] c = "6" -> 6 [] c = "7" -> 7
      [] c = "8" -> 8 [] c = "9" -> 9

\* The character at position i, or "" past the end of the text.
CharAt(text, i) == IF i >= 1 /\ i <= Len(text) THEN text[i] ELSE ""

\* The text has the characters of lit from position i on.
HasAt(text, i, lit) ==
    /\ i + Len(lit) - 1 <= Len(text)
    /\ \A j \in 1..Len(lit) : text[i + j - 1] = lit[j]

\* s.replace(old, new) for a two-character old: left to right, without
\* overlap.
RECURSIVE Replace2(_, _, _)
Replace2(s, old, new) ==
    IF s = <<>> THEN <<>>
    ELSE IF HasAt(s, 1, old)
         THEN new \o Replace2(SubSeq(s, 3, Len(s)), old, new)
         ELSE <<s[1]>> \o Replace2(Tail(s), old, new)

\* s.replace("Z", "+00:00")
RECURSIVE ReplaceZ(_)
ReplaceZ(s) ==
    IF s = <<>> THEN <<>>
    ELSE (IF s[1] = "Z" THEN <<"+", "0", "0", ":", "0", "0">> ELSE <<s[1]>>)
         \o ReplaceZ(Tail(s))

\* The characters of s from position i on have the shape of pattern, where
\* "d" stands for any digit and every other character for itself.
HasShape(s, i, pattern) ==
    /\ i + Len(pattern) - 1 <= Len(s)
    /\ \A j \in 1..Len(pattern) :
          IF pattern[j] = "d" THEN s[i + j - 1] \in Digits
          ELSE s[i + j - 1] = pattern[j]

DateShape == <<"d", "d", "d", "d", "-", "d", "d", "-", "d", "d">>

TimeShape == <<"d", "d", ":", "d", "d", ":", "d", "d">>

\* datetime.fromisoformat(s) succeeds: a date YYYY-MM-DD, alone or followed
\* by one separator character and a time HH:MM:SS, itself alone or followed
\* by an offset +HH:MM or -HH:MM.
fromisoformat(s) ==
    /\ HasShape(s, 1, DateShape)
    /\ \/ Len(s) = Len(DateShape)
       \/ /\ HasShape(s, Len(DateShape) + 2, TimeShape)
          /\ LET rest == Len(DateShape) + 1 + Len(TimeShape)
             IN  \/ Len(s) = rest
                 \/ /\ Len(s) = rest + 6
                    /\ s[rest + 1] \in {"+", "-"}
                    /\ HasShape(s, rest + 2, <<"d", "d", ":", "d", "d">>)

(***************************************************************************)
(* Literal decoding and value flattening.                                  *)
(***************************************************************************)

\* The two escapes decoded, in the order of the two replace calls.
Unescape(s) ==
    Replace2(Replace2(s, <<"\\", "'">>, <<"'">>), <<"\\", "\\">>, <<"\\">>)

\* visit_string: _node.text[1:-1], unescaped.
visit_string(text) == Str(Unescape(SubSeq(text, 2, Len(text) - 1)))

\* int(text) of an unsigned run of digits.
RECURSIVE DecimalValue(_)
DecimalValue(digits) ==
    IF digits = <<>> THEN 0
    ELSE 10 * DecimalValue(SubSeq(digits, 1, Len(digits) - 1))
         + DigitValue(digits[Len(digits)])

\* float: trailing zeros of the fraction do not change the value.
RECURSIVE NormalFloat(_, _)
NormalFloat(num, scale) ==
    IF scale > 0 /\ num % 10 = 0 THEN NormalFloat(num \div 10, scale - 1)
    ELSE FloatVal(num, scale)

\* visit_number: float(text) if "." in text else int(text).
visit_number(text) ==
    LET neg == text[1] = "-"
        body == IF neg THEN Tail(text) ELSE text
        dots == {i \in 1..Len(body) : body[i] = "."}
    IN  IF dots = {}
        THEN IntVal(IF neg THEN 0 - DecimalValue(body) ELSE DecimalValue(body))
        ELSE LET dot == CHOOSE i \in dots : TRUE
                 whole == SubSeq(body, 1, dot - 1)
                 frac == SubSeq(body, dot + 1, Len(body))
                 num == DecimalValue(whole \o frac)
             IN  NormalFloat(IF neg THEN 0 - num ELSE num, Len(frac))

\* visit_boolean: _node.text.lower() == "true"
visit_boolean(text) == BoolVal(Lower(text) = <<"t", "r", "u", "e">>)

\* visit_date_string: _node.text[1:-1]
visit_date_string(text) == Str(SubSeq(text, 2, Len(text) - 1))

\* The concatenation of the sequences of a sequence.
RECURSIVE Concat(_)
Concat(seqs) == IF seqs = <<>> THEN <<>> ELSE Head(seqs) \o Concat(Tail(seqs))

\* _flatten_all(val), as the sequence of the items of the list it returns.
RECURSIVE FlattenAll(_)
FlattenAll(val) ==
    IF IsList(val)
    THEN Concat([i \in 1..Len(val.items) |-> FlattenAll(val.items[i])])
    ELSE IF ~IsNone(val) THEN <<val>> ELSE <<>>

_flatten_all(val) == List(FlattenAll(val))

\* _flatten_list_values(x), as the sequence of the items of the list it
\* returns: None, "" and "," are left out.
RECURSIVE FlattenListValues(_)
FlattenListValues(x) ==
    IF IsList(x)
    THEN Concat([i \in 1..Len(x.items) |-> FlattenListValues(x.items[i])])
    ELSE IF ~IsNone(x) /\ ~(IsStr(x) /\ x.text \in {<<>>, <<",">>})
         THEN <<x>>
         ELSE <<>>

_flatten_list_values(x) == List(FlattenListValues(x))

\* visit_value: a list is flattened; a str that starts and ends with a
\* quote is stripped and unescaped (once more, after visit_string).
visit_value(val) ==
    IF IsList(val) THEN _flatten_all(val)
    ELSE IF IsStr(val)
         THEN IF Len(val.text) > 0 /\ val.text[1] = "'"
                 /\ val.text[Len(val.text)] = "'"
              THEN Str(Unescape(SubSeq(val.text, 2, Len(val.text) - 1)))
              ELSE val
         ELSE val

\* What generic_visit makes of `(value (ws "," ws value)*)?` for the visited
\* values of a list literal: "" for no value, else [[v1, tail]] where tail
\* is "" or [[",", v2], [",", v3], ...].
ListContent(vals) ==
    IF vals = <<>> THEN Str(<<>>)
    ELSE List(<<List(<<vals[1],
                       IF Len(vals) = 1 THEN Str(<<>>)
                       ELSE List([i \in 1..(Len(vals) - 1) |->
                                     List(<<Str(<<",">>), vals[i + 1]>>)])>>)>>)

\* visit_list_value: visited_children = ["(", None, content, None, ")"].
visit_list_value(content) ==
    IF Truthy(content)
    THEN List(FlattenListValues(content.items[1])
              \o (IF Len(content.items) > 1 /\ IsList(content.items[2])
                  THEN Concat([i \in 1..Len(content.items[2].items) |->
                          LET tail_item == content.items[2].items[i]
                          IN  IF IsList(tail_item) /\ Len(tail_item.items) > 3
                              THEN FlattenListValues(tail_item.items[4])
                              ELSE <<>>])
                  ELSE <<>>))
    ELSE List(<<>>)

(***************************************************************************)
(* The semantic mapper: one Filter per leaf condition.                     *)
(***************************************************************************)

MustOf(cond) == Filter(List(<<cond>>), NoneVal, NoneVal)

MustNotOf(cond) == Filter(NoneVal, NoneVal, List(<<cond>>))

\* models.MatchValue(value=...), MatchAny(any=...), MatchExcept(except=...),
\* MatchText(text=...)
MatchValue(val) == [type |-> "MatchValue", value |-> val]

MatchAny(val) == [type |-> "MatchAny", value |-> val]

MatchExcept(val) == [type |-> "MatchExcept", value |-> val]

MatchText(val) == [type |-> "MatchText", value |-> val]

\* The keyword arguments of a range: None for a bound that is not set.
RangeKwargs(gt, gte, lt, lte) == [gt |-> gt, gte |-> gte, lt |-> lt, lte |-> lte]

\* models.Range(**range_kwargs)
Range(kw) ==
    [type |-> "Range", gt |-> kw.gt, gte |-> kw.gte, lt |-> kw.lt, lte |-> kw.lte]

\* models.DatetimeRange(**range_kwargs)
DatetimeRange(kw) ==
    [type |-> "DatetimeRange", gt |-> kw.gt, gte |-> kw.gte, lt |-> kw.lt,
     lte |-> kw.lte]

\* models.ValuesCount(**count_kwargs)
ValuesCount(kw) ==
    [type |-> "ValuesCount", gt |-> kw.gt, gte |-> kw.gte, lt |-> kw.lt,
     lte |-> kw.lte]

\* The try block of handle_between and handle_range succeeds for val.
ParsesAsDatetime(val) == fromisoformat(ReplaceZ(val.text))

\* handle_between(val1, val2, is_not)
handle_between(identifier, val1, val2, is_not) ==
    LET range_kwargs == RangeKwargs(NoneVal, val1, NoneVal, val2)
        cond == IF IsStr(val1) /\ IsStr(val2) /\ ParsesAsDatetime(val1)
                   /\ ParsesAsDatetime(val2)
                THEN FieldCondition(identifier, "range", DatetimeRange(range_kwargs))
                ELSE FieldCondition(identifier, "range", Range(range_kwargs))
    IN  IF is_not THEN MustNotOf(cond) ELSE MustOf(cond)

\* handle_equality(val, is_not)
handle_equality(identifier, val, is_not) ==
    IF IsNone(val) THEN ErrorVal
    ELSE LET cond == FieldCondition(identifier, "match", MatchValue(val))
         IN  IF is_not THEN MustNotOf(cond) ELSE MustOf(cond)

\* A handle_in that rejects a list without values.
handle_in_nonempty(identifier, val, is_not) ==
    IF IsNone(val) \/ FlattenAll(val) = <<>> THEN ErrorVal
    ELSE LET clean_value == _flatten_all(val)
         IN  IF is_not
             THEN MustOf(FieldCondition(identifier, "match", MatchExcept(clean_value)))
             ELSE MustOf(FieldCondition(identifier, "match", MatchAny(clean_value)))

\* handle_in(val, is_not): both branches return the condition in must.
handle_in(identifier, val, is_not) ==
    IF IsNone(val) THEN ErrorVal
    ELSE LET clean_value == _flatten_all(val)
         IN  IF is_not
             THEN MustOf(FieldCondition(identifier, "match", MatchExcept(clean_value)))
             ELSE MustOf(FieldCondition(identifier, "match", MatchAny(clean_value)))

\* handle_like(val)
handle_like(identifier, val) ==
    IF IsNone(val) THEN ErrorVal
    ELSE MustOf(FieldCondition(identifier, "match", MatchText(val)))

\* A handle_range that takes the inclusive operators for the exclusive
\* bounds.
handle_range_exclusive(identifier, op, val) ==
    LET range_kwargs ==
            RangeKwargs(IF op \in {">", ">="} THEN val ELSE NoneVal,
                        NoneVal,
                        IF op \in {"<", "<="} THEN val ELSE NoneVal,
                        NoneVal)
    IN  IF IsStr(val) /\ ParsesAsDatetime(val)
        THEN MustOf(FieldCondition(identifier, "range", DatetimeRange(range_kwargs)))
        ELSE MustOf(FieldCondition(identifier, "range", Range(range_kwargs)))

\* handle_range(op, val)
handle_range(identifier, op, val) ==
    LET range_kwargs ==
            RangeKwargs(IF op = ">" THEN val ELSE NoneVal,
                        IF op = ">=" THEN val ELSE NoneVal,
                        IF op = "<" THEN val ELSE NoneVal,
                        IF op = "<=" THEN val ELSE NoneVal)
    IN  IF IsStr(val) /\ ParsesAsDatetime(val)
        THEN MustOf(FieldCondition(identifier, "range", DatetimeRange(range_kwargs)))
        ELSE MustOf(FieldCondition(identifier, "range", Range(range_kwargs)))

\* visit_comparison: the dispatch table op_handlers.  op_text is the
\* operator as the handler lookup sees it (joined and upper-cased);
\* operands is op_details without the operator, so that operands[1] is
\* op_details[1] and operands[3] is op_details[3].
visit_comparison(identifier, op_text, operands) ==
    LET value == IF Len(operands) > 0 THEN operands[1] ELSE NoneVal
    IN  CASE op_text = "BETWEEN" ->
                handle_between(identifier, operands[1], operands[3], FALSE)
          [] op_text = "NOT BETWEEN" ->
                handle_between(identifier, operands[1], operands[3], TRUE)
          [] op_text = "=" -> handle_equality(identifier, value, FALSE)
          [] op_text \in {"!=", "<>"} -> handle_equality(identifier, value, TRUE)
          [] op_text = "IN" -> handle_in(identifier, value, FALSE)
          [] op_text = "NOT IN" -> handle_in(identifier, value, TRUE)
          [] op_text = "LIKE" -> handle_like(identifier, value)
          [] op_text \in {">", ">=", "<", "<="} ->
                handle_range(identifier, op_text, value)
          [] OTHER -> ErrorVal

\* A visit_is_null_condition that does not look at the NOT.
visit_is_null_condition_ignore_not(identifier, not_op_present) ==
    Filter(List(<<IsNullCondition(identifier)>>), NoneVal, NoneVal)

\* A visit_is_null_condition with the two buckets exchanged.
visit_is_null_condition_swapped(identifier, not_op_present) ==
    IF not_op_present
    THEN MustOf(IsNullCondition(identifier))
    ELSE MustNotOf(IsNullCondition(identifier))

\* visit_is_null_condition: NOT between IS and NULL selects must_not.
visit_is_null_condition(identifier, not_op_present) ==
    IF not_op_present
    THEN MustNotOf(IsNullCondition(identifier))
    ELSE MustOf(IsNullCondition(identifier))

\* visit_is_empty_condition
visit_is_empty_condition(identifier) == MustOf(IsEmptyCondition(identifier))

\* visit_is_empty_array_condition delegates to visit_is_empty_condition.
visit_is_empty_array_condition(identifier) == visit_is_empty_condition(identifier)

\* visit_has_id_condition: visited_children = ["id", None, op, None, value];
\* op_str is the operator, joined and upper-cased.  A child equal to "id"
\* is not among the meaningful parts.
visit_has_id_condition(op_str, value_node) ==
    LET meaningful_parts ==
            <<Str(<<>>)>> \o (IF IsStr(value_node) /\ value_node.text = <<"i", "d">>
                              THEN <<>> ELSE <<value_node>>)
        is_not_condition == op_str \in {"!=", "<>", "NOT IN"}
        normalized_op_str ==
            CASE op_str \in {"!=", "<>"} -> "="
              [] op_str = "NOT IN" -> "IN"
              [] OTHER -> op_str
        has_id_values ==
            IF normalized_op_str = "IN" THEN _flatten_all(value_node)
            ELSE IF ~IsList(value_node) THEN List(<<value_node>>)
                 ELSE value_node
        cond == HasIdCondition(has_id_values)
    IN  IF Len(meaningful_parts) >= 2
        THEN IF normalized_op_str \in {"IN", "="}
             THEN IF is_not_condition THEN MustNotOf(cond) ELSE MustOf(cond)
             ELSE ErrorVal
        ELSE ErrorVal

\* A visit_values_count_condition whose = sets the lower bound only.
visit_values_count_condition_open(identifier, op_text, operands) ==
    LET number == operands[1]
        count_kwargs ==
            CASE op_text = "BETWEEN" ->
                    RangeKwargs(NoneVal, operands[1], NoneVal, operands[3])
              [] op_text = ">" -> RangeKwargs(number, NoneVal, NoneVal, NoneVal)
              [] op_text = ">=" -> RangeKwargs(NoneVal, number, NoneVal, NoneVal)
              [] op_text = "<" -> RangeKwargs(NoneVal, NoneVal, number, NoneVal)
              [] op_text = "<=" -> RangeKwargs(NoneVal, NoneVal, NoneVal, number)
              [] op_text = "=" -> RangeKwargs(NoneVal, number, NoneVal, NoneVal)
              [] OTHER -> RangeKwargs(NoneVal, NoneVal, NoneVal, NoneVal)
    IN  MustOf(FieldCondition(identifier, "values_count", ValuesCount(count_kwargs)))

\* visit_values_count_condition: operands is op_details without the
\* operator, as in visit_comparison.
visit_values_count_condition(identifier, op_text, operands) ==
    LET number == operands[1]
        count_kwargs ==
            CASE op_text = "BETWEEN" ->
                    RangeKwargs(NoneVal, operands[1], NoneVal, operands[3])
              [] op_text = ">" -> RangeKwargs(number, NoneVal, NoneVal, NoneVal)
              [] op_text = ">=" -> RangeKwargs(NoneVal, number, NoneVal, NoneVal)
              [] op_text = "<" -> RangeKwargs(NoneVal, NoneVal, number, NoneVal)
              [] op_text = "<=" -> RangeKwargs(NoneVal, NoneVal, NoneVal, number)
              [] op_text = "=" -> RangeKwargs(NoneVal, number, NoneVal, number)
              [] OTHER -> RangeKwargs(NoneVal, NoneVal, NoneVal, NoneVal)
    IN  MustOf(FieldCondition(identifier, "values_count", ValuesCount(count_kwargs)))

\* The operands of the condition a leaf token stands for: the number 1 for
\* every literal.
LeafOperands(op) ==
    CASE op \in {"BETWEEN", "NOT BETWEEN"} ->
            <<IntVal(1), Str(<<"A", "N", "D">>), IntVal(1)>>
      [] op \in {"IN", "NOT IN"} -> <<List(<<IntVal(1)>>)>>
      [] OTHER -> <<IntVal(1)>>

\* visit_condition: the result of the alternative of `condition` that
\* matched, here for a leaf token.
visit_condition(node) ==
    CASE node.op = "IS NULL" -> visit_is_null_condition(node.key, FALSE)
      [] node.op = "IS NOT NULL" -> visit_is_null_condition(node.key, TRUE)
      [] node.op = "IS EMPTY" -> visit_is_empty_condition(node.key)
      [] OTHER -> visit_comparison(node.key, node.op, LeafOperands(node.op))

(***************************************************************************)
(* The grammar at the level of characters.  Every rule is an operator      *)
(* parse_<rule>(text, i) that matches at position i.  The rules that are   *)
(* regular expressions or literals return the position after the match, or *)
(* 0 for no match; the other rules return a parse result [ok, pos, node].  *)
(* A sequence fails when one of its members fails; an alternation takes    *)
(* its first alternative that matches and never reconsiders it.            *)
(***************************************************************************)

WhiteSpace == {" ", "\t", "\n", "\r"}

\* [a-zA-Z0-9_]
WordChars == UpperLetters \cup LowerLetters \cup Digits \cup {"_"}

\* ws = ~r"\s*"
RECURSIVE parse_ws(_, _)
parse_ws(text, i) ==
    IF CharAt(text, i) \in WhiteSpace THEN parse_ws(text, i + 1) ELSE i

\* A literal of the grammar, such as "=" or "[]".
parse_literal(text, i, lit) == IF HasAt(text, i, lit) THEN i + Len(lit) ELSE 0

\* A keyword rule without the lookahead: the letters of kw match whatever
\* follows them.
parse_keyword_prefix(text, i, kw) ==
    IF /\ i + Len(kw) - 1 <= Len(text)
       /\ \A j \in 1..Len(kw) : ToLower(text[i + j - 1]) = kw[j]
    THEN i + Len(kw)
    ELSE 0

\* A keyword ~r"kw(?![a-zA-Z0-9_])"i; kw is given in lower case.
parse_keyword(text, i, kw) ==
    IF /\ i + Len(kw) - 1 <= Len(text)
       /\ \A j \in 1..Len(kw) : ToLower(text[i + j - 1]) = kw[j]
       /\ CharAt(text, i + Len(kw)) \notin WordChars
    THEN i + Len(kw)
    ELSE 0

KwAnd == <<"a", "n", "d">>
KwOr == <<"o", "r">>
KwNot == <<"n", "o", "t">>
KwIn == <<"i", "n">>
KwLike == <<"l", "i", "k", "e">>
KwIs == <<"i", "s">>
KwNull == <<"n", "u", "l", "l">>
KwEmpty == <<"e", "m", "p", "t", "y">>
KwTrue == <<"t", "r", "u", "e">>
KwFalse == <<"f", "a", "l", "s", "e">>
KwBetween == <<"b", "e", "t", "w", "e", "e", "n">>
KwCount == <<"c", "o", "u", "n", "t">>

\* identifier = ~r"[a-zA-Z_][a-zA-Z0-9_\[\].]*"
RECURSIVE IdentifierEnd(_, _)
IdentifierEnd(text, i) ==
    IF CharAt(text, i) \in WordChars \cup {"[", "]", "."}
    THEN IdentifierEnd(text, i + 1)
    ELSE i

parse_identifier(text, i) ==
    IF CharAt(text, i) \in UpperLetters \cup LowerLetters \cup {"_"}
    THEN IdentifierEnd(text, i + 1)
    ELSE 0

\* string = ~r"'(?:[^'\\]|\\['\\])*'"
RECURSIVE StringEnd(_, _)
StringEnd(text, i) ==
    LET c == CharAt(text, i)
    IN  IF c = "" THEN 0
        ELSE IF c = "'" THEN i + 1
        ELSE IF c = "\\"
             THEN IF CharAt(text, i + 1) \in {"'", "\\"}
                  THEN StringEnd(text, i + 2)
                  ELSE 0
        ELSE StringEnd(text, i + 1)

parse_string(text, i) == IF CharAt(text, i) = "'" THEN StringEnd(text, i + 1) ELSE 0

\* \d+ : the position after the run of digits at i, or 0 if there is none.
RECURSIVE DigitsEnd(_, _)
DigitsEnd(text, i) ==
    IF CharAt(text, i) \in Digits
    THEN LET more == DigitsEnd(text, i + 1) IN IF more = 0 THEN i + 1 ELSE more
    ELSE 0

\* number = ~r"-?\d+(?:\.\d+)?"
parse_number(text, i) ==
    Bind(DigitsEnd(text, IF CharAt(text, i) = "-" THEN i + 1 ELSE i), LAMBDA whole :
    Bind(IF whole # 0 /\ CharAt(text, whole) = "."
         THEN DigitsEnd(text, whole + 1) ELSE 0, LAMBDA frac :
        IF frac # 0 THEN frac ELSE whole))

\* boolean = TRUE / FALSE
parse_boolean(text, i) ==
    Bind(parse_keyword(text, i, KwTrue), LAMBDA true :
        IF true # 0 THEN true ELSE parse_keyword(text, i, KwFalse))

\* date_string = ~r"'\\d{4}-\\d{2}-\\d{2}(T\\d{2}:\\d{2}:\\d{2}(\\.\\d+)?Z?)?'"
\* In this pattern \\ is one backslash character and d{4} is four letters d.
DateStringDate ==
    <<"'", "\\", "d", "d", "d", "d", "-", "\\", "d", "d", "-", "\\", "d", "d">>

DateStringTime == <<"T", "\\", "d", "d", ":", "\\", "d", "d", ":", "\\", "d", "d">>

\* d+ : the position after the run of letters d at i, or 0.
RECURSIVE LettersDEnd(_, _)
LettersDEnd(text, i) ==
    IF CharAt(text, i) = "d"
    THEN LET more == LettersDEnd(text, i + 1) IN IF more = 0 THEN i + 1 ELSE more
    ELSE 0

parse_date_string(text, i) ==
    Bind(parse_literal(text, i, DateStringDate), LAMBDA date :
    Bind(IF date = 0 THEN 0 ELSE parse_literal(text, date, DateStringTime), LAMBDA time :
    \* (\\.\\d+)? : a backslash, any character, a backslash, letters d
    Bind(IF time # 0 /\ CharAt(text, time) = "\\"
            /\ CharAt(text, time + 1) \notin {"", "\n"}
            /\ CharAt(text, time + 2) = "\\"
         THEN LettersDEnd(text, time + 3) ELSE 0, LAMBDA frac :
    Bind(IF frac # 0 THEN frac ELSE time, LAMBDA afterFrac :
    Bind(IF CharAt(text, afterFrac) = "Z" THEN afterFrac + 1 ELSE afterFrac,
         LAMBDA afterZ :
        IF date = 0 THEN 0
        ELSE IF time # 0 /\ CharAt(text, afterZ) = "'" THEN afterZ + 1
        ELSE IF time # 0 /\ frac # 0 /\ CharAt(text, time) = "'" THEN time + 1
        ELSE IF time # 0 /\ CharAt(text, afterFrac) = "'" THEN afterFrac + 1
        ELSE IF CharAt(text, date) = "'" THEN date + 1
        ELSE 0)))))

ParseOk(pos, node) == [ok |-> TRUE, pos |-> pos, node |-> node]

\* The first result of cands that matched.
FirstOk(cands) ==
    Bind({k \in 1..Len(cands) : cands[k].ok}, LAMBDA oks :
        IF oks = {} THEN ParseFail
        ELSE cands[CHOOSE k \in oks : \A m \in oks : k <= m])

\* The text between two positions.
Slice(text, from, to) == SubSeq(text, from, to - 1)

RECURSIVE parse_value(_, _)
RECURSIVE ListTail(_, _, _)

\* (ws "," ws value)* : greedy; an item that does not match is left unread.
ListTail(text, i, acc) ==
    Bind(parse_literal(text, parse_ws(text, i), <<",">>), LAMBDA comma :
    Bind(IF comma = 0 THEN ParseFail ELSE parse_value(text, parse_ws(text, comma)),
         LAMBDA v :
        IF v.ok THEN ListTail(text, v.pos, Append(acc, v.node))
        ELSE [pos |-> i, items |-> acc]))

\* list_value = "(" ws (value (ws "," ws value)*)? ws ")"
parse_list_value(text, i) ==
    Bind(parse_literal(text, i, <<"(">>), LAMBDA open :
    Bind(IF open = 0 THEN 0 ELSE parse_ws(text, open), LAMBDA start :
    Bind(IF open = 0 THEN ParseFail ELSE parse_value(text, start), LAMBDA first :
    Bind(IF first.ok THEN ListTail(text, first.pos, <<first.node>>)
         ELSE [pos |-> start, items |-> <<>>], LAMBDA tail :
    Bind(IF open = 0 THEN 0
         ELSE parse_literal(text, parse_ws(text, tail.pos), <<")">>), LAMBDA close :
        IF close = 0 THEN ParseFail
        ELSE ParseOk(close, [rule |-> "list_value", items |-> tail.items]))))))

\* The result of a rule of `value` that is a regular expression or a
\* literal: the node keeps the matched text.
TextNode(rule, text, i, end) ==
    IF end = 0 THEN ParseFail
    ELSE ParseOk(end, [rule |-> rule, text |-> Slice(text, i, end)])

\* value = list_value / "[]" / string / number / boolean / date_string
parse_value(text, i) ==
    FirstOk(<<parse_list_value(text, i),
              TextNode("literal", text, i, parse_literal(text, i, <<"[", "]">>)),
              TextNode("string", text, i, parse_string(text, i)),
              TextNode("number", text, i, parse_number(text, i)),
              TextNode("boolean", text, i, parse_boolean(text, i)),
              TextNode("date_string", text, i, parse_date_string(text, i))>>)

\* not_in_op = NOT ws IN, not_between_op = NOT ws BETWEEN
parse_not_then(text, i, kw) ==
    Bind(parse_keyword(text, i, KwNot), LAMBDA n :
        IF n = 0 THEN 0 ELSE parse_keyword(text, parse_ws(text, n), kw))

\* not_equals = "!=" / "<>"
parse_not_equals(text, i) ==
    Bind(parse_literal(text, i, <<"!", "=">>), LAMBDA ne :
        IF ne # 0 THEN ne ELSE parse_literal(text, i, <<"<", ">">>))

\* The texts of the words of an operator, joined by one space each: what
\* " ".join(...) makes of the children of `NOT ws IN` that generic_visit
\* keeps, and the text itself for an operator of one word.
RECURSIVE JoinWords(_)
JoinWords(s) ==
    IF s = <<>> THEN <<>>
    ELSE IF s[1] \in WhiteSpace
         THEN IF Len(s) > 1 /\ s[2] \in WhiteSpace THEN JoinWords(Tail(s))
              ELSE <<" ">> \o JoinWords(Tail(s))
         ELSE <<s[1]>> \o JoinWords(Tail(s))

\* The operators the visitors compare op_text and op_str with, each with
\* its spelling.
OpSpellings ==
    {<<"=", <<"=">>>>, <<"!=", <<"!", "=">>>>, <<"<>", <<"<", ">">>>>,
     <<">", <<">">>>>, <<">=", <<">", "=">>>>, <<"<", <<"<">>>>,
     <<"<=", <<"<", "=">>>>, <<"IN", <<"I", "N">>>>,
     <<"NOT IN", <<"N", "O", "T", " ", "I", "N">>>>,
     <<"LIKE", <<"L", "I", "K", "E">>>>,
     <<"BETWEEN", <<"B", "E", "T", "W", "E", "E", "N">>>>,
     <<"NOT BETWEEN",
       <<"N", "O", "T", " ", "B", "E", "T", "W", "E", "E", "N">>>>,
     <<"AND", <<"A", "N", "D">>>>, <<"OR", <<"O", "R">>>>}

\* op_text / op_str of the visitors: the operator that matched between the
\* positions i and opEnd, joined and converted with upper(); "?" stands for
\* a text that none of the visitors' comparisons recognises.
OpText(text, i, opEnd) ==
    Bind(Upper(JoinWords(Slice(text, i, opEnd))), LAMBDA up :
        IF \E p \in OpSpellings : p[2] = up
        THEN (CHOOSE p \in OpSpellings : p[2] = up)[1]
        ELSE "?")

\* (op ws value): opEnd is the position after the operator that starts at
\* i (0 if it did not match).
OpValue(text, i, opEnd) ==
    Bind(IF opEnd = 0 THEN ParseFail
         ELSE parse_value(text, parse_ws(text, opEnd)), LAMBDA v :
        IF v.ok
        THEN ParseOk(v.pos, [op |-> OpText(text, i, opEnd), values |-> <<v.node>>])
        ELSE ParseFail)

\* (op ws value ws AND ws value)
OpValueAndValue(text, i, opEnd) ==
    Bind(IF opEnd = 0 THEN ParseFail
         ELSE parse_value(text, parse_ws(text, opEnd)), LAMBDA v1 :
    Bind(IF v1.ok THEN parse_ws(text, v1.pos) ELSE 0, LAMBDA from :
    Bind(IF v1.ok THEN parse_keyword(text, from, KwAnd) ELSE 0, LAMBDA and :
    Bind(IF and = 0 THEN ParseFail
         ELSE parse_value(text, parse_ws(text, and)), LAMBDA v2 :
        IF v2.ok
        THEN ParseOk(v2.pos, [op |-> OpText(text, i, opEnd),
                              values |-> <<v1.node,
                                           [rule |-> "AND",
                                            text |-> Slice(text, from, and)],
                                           v2.node>>])
        ELSE ParseFail))))

\* comparison_op = (not_in_op ws value) / (not_between_op ws value ws AND ws value)
\*   / (gte ws value) / (lte ws value) / (gt ws value) / (lt ws value)
\*   / (equals ws value) / (not_equals ws value) / (in_op ws value)
\*   / (like_op ws value) / (between_op ws value ws AND ws value)
parse_comparison_op(text, i) ==
    FirstOk(<<OpValue(text, i, parse_not_then(text, i, KwIn)),
              OpValueAndValue(text, i, parse_not_then(text, i, KwBetween)),
              OpValue(text, i, parse_literal(text, i, <<">", "=">>)),
              OpValue(text, i, parse_literal(text, i, <<"<", "=">>)),
              OpValue(text, i, parse_literal(text, i, <<">">>)),
              OpValue(text, i, parse_literal(text, i, <<"<">>)),
              OpValue(text, i, parse_literal(text, i, <<"=">>)),
              OpValue(text, i, parse_not_equals(text, i)),
              OpValue(text, i, parse_keyword(text, i, KwIn)),
              OpValue(text, i, parse_keyword(text, i, KwLike)),
              OpValueAndValue(text, i, parse_keyword(text, i, KwBetween))>>)

\* comparison = identifier ws comparison_op
parse_comparison(text, i) ==
    Bind(parse_identifier(text, i), LAMBDA id_end :
    Bind(IF id_end = 0 THEN ParseFail
         ELSE parse_comparison_op(text, parse_ws(text, id_end)), LAMBDA op :
        IF op.ok
        THEN ParseOk(op.pos, [rule |-> "comparison", oid |-> i,
                              identifier |-> Slice(text, i, id_end),
                              op |-> op.node.op, values |-> op.node.values])
        ELSE ParseFail))

\* is_null_condition = identifier ws IS ws NOT? ws NULL
parse_is_null_condition(text, i) ==
    Bind(parse_identifier(text, i), LAMBDA id_end :
    Bind(IF id_end = 0 THEN 0
         ELSE parse_keyword(text, parse_ws(text, id_end), KwIs), LAMBDA is :
    Bind(IF is = 0 THEN 0 ELSE parse_ws(text, is), LAMBDA from :
    Bind(IF is = 0 THEN 0 ELSE parse_keyword(text, from, KwNot), LAMBDA not :
    Bind(IF is = 0 THEN 0
         ELSE parse_keyword(text, parse_ws(text, IF not # 0 THEN not ELSE from),
                            KwNull), LAMBDA null :
        IF null = 0 THEN ParseFail
        ELSE ParseOk(null, [rule |-> "is_null_condition", oid |-> i,
                            identifier |-> Slice(text, i, id_end),
                            not_op |-> not # 0]))))))

\* is_empty_condition = identifier ws IS ws EMPTY
parse_is_empty_condition(text, i) ==
    Bind(parse_identifier(text, i), LAMBDA id_end :
    Bind(IF id_end = 0 THEN 0
         ELSE parse_keyword(text, parse_ws(text, id_end), KwIs), LAMBDA is :
    Bind(IF is = 0 THEN 0
         ELSE parse_keyword(text, parse_ws(text, is), KwEmpty), LAMBDA empty :
        IF empty = 0 THEN ParseFail
        ELSE ParseOk(empty, [rule |-> "is_empty_condition", oid |-> i,
                             identifier |-> Slice(text, i, id_end)]))))

\* is_empty_array_condition = identifier ws equals ws "[]"
parse_is_empty_array_condition(text, i) ==
    Bind(parse_identifier(text, i), LAMBDA id_end :
    Bind(IF id_end = 0 THEN 0
         ELSE parse_literal(text, parse_ws(text, id_end), <<"=">>), LAMBDA eq :
    Bind(IF eq = 0 THEN 0
         ELSE parse_literal(text, parse_ws(text, eq), <<"[", "]">>), LAMBDA arr :
        IF arr = 0 THEN ParseFail
        ELSE ParseOk(arr, [rule |-> "is_empty_array_condition", oid |-> i,
                           identifier |-> Slice(text, i, id_end)]))))

\* (op ws number), (between_op ws number ws AND ws number)
OpNumber(text, i, opEnd) ==
    Bind(IF opEnd = 0 THEN 0 ELSE parse_ws(text, opEnd), LAMBDA from :
    Bind(IF opEnd = 0 THEN 0 ELSE parse_number(text, from), LAMBDA n :
        IF n = 0 THEN ParseFail
        ELSE ParseOk(n, [op |-> OpText(text, i, opEnd),
                         values |-> <<[rule |-> "number",
                                       text |-> Slice(text, from, n)]>>])))

OpNumberAndNumber(text, i, opEnd) ==
    Bind(OpNumber(text, i, opEnd), LAMBDA n1 :
    Bind(IF n1.ok THEN parse_ws(text, n1.pos) ELSE 0, LAMBDA from :
    Bind(IF n1.ok THEN parse_keyword(text, from, KwAnd) ELSE 0, LAMBDA and :
    Bind(OpNumber(text, from, and), LAMBDA n2 :
        IF n2.ok
        THEN ParseOk(n2.pos, [op |-> n1.node.op,
                              values |-> <<n1.node.values[1],
                                           [rule |-> "AND",
                                            text |-> Slice(text, from, and)],
                                           n2.node.values[1]>>])
        ELSE ParseFail))))

\* values_count_op = (gte ws number) / (lte ws number) / (gt ws number)
\*   / (lt ws number) / (equals ws number)
\*   / (between_op ws number ws AND ws number)
parse_values_count_op(text, i) ==
    FirstOk(<<OpNumber(text, i, parse_literal(text, i, <<">", "=">>)),
              OpNumber(text, i, parse_literal(text, i, <<"<", "=">>)),
              OpNumber(text, i, parse_literal(text, i, <<">">>)),
              OpNumber(text, i, parse_literal(text, i, <<"<">>)),
              OpNumber(text, i, parse_literal(text, i, <<"=">>)),
              OpNumberAndNumber(text, i, parse_keyword(text, i, KwBetween))>>)

\* values_count_condition = COUNT "(" ws identifier ws ")" ws values_count_op
parse_values_count_condition(text, i) ==
    Bind(parse_keyword(text, i, KwCount), LAMBDA count :
    Bind(IF count = 0 THEN 0 ELSE parse_literal(text, count, <<"(">>), LAMBDA open :
    Bind(IF open = 0 THEN 0 ELSE parse_ws(text, open), LAMBDA id_start :
    Bind(IF open = 0 THEN 0 ELSE parse_identifier(text, id_start), LAMBDA id_end :
    Bind(IF id_end = 0 THEN 0
         ELSE parse_literal(text, parse_ws(text, id_end), <<")">>), LAMBDA close :
    Bind(IF close = 0 THEN ParseFail
         ELSE parse_values_count_op(text, parse_ws(text, close)), LAMBDA op :
        IF op.ok
        THEN ParseOk(op.pos, [rule |-> "values_count_condition", oid |-> i,
                              identifier |-> Slice(text, id_start, id_end),
                              op |-> op.node.op, values |-> op.node.values])
        ELSE ParseFail))))))

\* has_id_condition = "id" ws (equals / not_equals / in_op / not_in_op) ws value
parse_has_id_condition(text, i) ==
    Bind(parse_literal(text, i, <<"i", "d">>), LAMBDA id_end :
    Bind(IF id_end = 0 THEN 0 ELSE parse_ws(text, id_end), LAMBDA from :
    Bind(IF id_end = 0 THEN ParseFail
         ELSE FirstOk(<<
             OpValue(text, from, parse_literal(text, from, <<"=">>)),
             OpValue(text, from, parse_not_equals(text, from)),
             OpValue(text, from, parse_keyword(text, from, KwIn)),
             OpValue(text, from, parse_not_then(text, from, KwIn))>>),
         LAMBDA op :
        IF op.ok
        THEN ParseOk(op.pos, [rule |-> "has_id_condition", oid |-> i,
                              op |-> op.node.op, values |-> op.node.values])
        ELSE ParseFail)))

\* A condition rule that tries is_empty_array_condition last, after the
\* comparisons.
parse_condition_array_last(text, i) ==
    FirstOk(<<parse_is_null_condition(text, i),
              parse_is_empty_condition(text, i),
              parse_values_count_condition(text, i),
              parse_has_id_condition(text, i),
              parse_comparison(text, i),
              parse_is_empty_array_condition(text, i)>>)

\* condition = is_null_condition / is_empty_condition
\*   / is_empty_array_condition / values_count_condition / has_id_condition
\*   / comparison
parse_condition(text, i) ==
    FirstOk(<<parse_is_null_condition(text, i),
              parse_is_empty_condition(text, i),
              parse_is_empty_array_condition(text, i),
              parse_values_count_condition(text, i),
              parse_has_id_condition(text, i),
              parse_comparison(text, i)>>)

RECURSIVE parse_expression(_, _)
RECURSIVE parse_factor(_, _)
RECURSIVE ExpressionRest(_, _, _)

\* factor = (NOT ws)? (condition / ("(" ws expression ws ")"))
\* The optional NOT, once matched, is not given back when what follows fails.
parse_factor(text, i) ==
    Bind(parse_keyword(text, i, KwNot), LAMBDA not :
    Bind(IF not # 0 THEN parse_ws(text, not) ELSE i, LAMBDA from :
    Bind(parse_condition(text, from), LAMBDA cond :
    Bind(parse_literal(text, from, <<"(">>), LAMBDA open :
    Bind(IF cond.ok \/ open = 0 THEN ParseFail
         ELSE parse_expression(text, parse_ws(text, open)), LAMBDA e :
    Bind(IF e.ok THEN parse_literal(text, parse_ws(text, e.pos), <<")">>)
         ELSE 0, LAMBDA close :
        IF cond.ok
        THEN ParseOk(cond.pos, [rule |-> "factor", not_part |-> not # 0,
                                body |-> cond.node])
        ELSE IF close # 0
        THEN ParseOk(close, [rule |-> "factor", not_part |-> not # 0,
                             body |-> [rule |-> "group", expr |-> e.node]])
        ELSE ParseFail))))))

\* (ws (OR / AND) ws factor)* : greedy; an operator with no factor after it
\* is left unread.
ExpressionRest(text, i, acc) ==
    Bind(parse_ws(text, i), LAMBDA from :
    Bind(parse_keyword(text, from, KwOr), LAMBDA or :
    Bind(parse_keyword(text, from, KwAnd), LAMBDA and :
    Bind(IF or # 0 THEN parse_factor(text, parse_ws(text, or))
         ELSE IF and # 0 THEN parse_factor(text, parse_ws(text, and))
         ELSE ParseFail, LAMBDA f :
        IF f.ok
        THEN ExpressionRest(text, f.pos,
                            Append(acc, [op |-> OpText(text, from,
                                                       IF or # 0 THEN or ELSE and),
                                         factor |-> f.node]))
        ELSE [pos |-> i, rest |-> acc]))))

\* expression = factor (ws (OR / AND) ws factor)*
parse_expression(text, i) ==
    Bind(parse_factor(text, i), LAMBDA f :
        IF ~f.ok THEN ParseFail
        ELSE Bind(ExpressionRest(text, f.pos, <<>>), LAMBDA r :
                ParseOk(r.pos, [rule |-> "expression", first |-> f.node,
                                rest |-> r.rest])))

\* qdrant_filter_grammar.parse(where_clause): the whole text must match.
parse(text) ==
    Bind(parse_expression(text, 1), LAMBDA e :
        IF e.ok /\ e.pos = Len(text) + 1 THEN e ELSE ParseFail)

(***************************************************************************)
(* NodeVisitor.visit: children first, then the rule's method.  A rule with *)
(* no method of its own goes through generic_visit, which returns the list *)
(* of its children that are not None, or the node's text when that list is *)
(* empty.  An exception raised by a method ends the visit.                 *)
(***************************************************************************)

RECURSIVE Visit(_)
RECURSIVE VisitValue(_)

\* What generic_visit returns for `(NOT ws)?`: "" when absent, [["NOT"]]
\* when present.
NotPart(present) ==
    IF present THEN List(<<List(<<Str(<<"N", "O", "T">>)>>)>>) ELSE Str(<<>>)

\* The visit of a `value` node and of what it holds: the literal's own
\* method first, then visit_value.  The AND of a BETWEEN has no method and
\* yields its text.
VisitValue(node) ==
    CASE node.rule = "list_value" ->
            visit_value(visit_list_value(ListContent(
                [i \in 1..Len(node.items) |-> VisitValue(node.items[i])])))
      [] node.rule = "literal" -> visit_value(Str(node.text))
      [] node.rule = "string" -> visit_value(visit_string(node.text))
      [] node.rule = "number" -> visit_value(visit_number(node.text))
      [] node.rule = "boolean" -> visit_value(visit_boolean(node.text))
      [] node.rule = "date_string" -> visit_value(visit_date_string(node.text))
      [] node.rule = "AND" -> Str(node.text)

\* op_details without the operator.
Operands(values) == [i \in 1..Len(values) |-> VisitValue(values[i])]

\* The objects a visitor method creates for the node with identity oid.
Created(res, oid) ==
    LET Mark(b) == IF IsList(b)
                   THEN List([i \in 1..Len(b.items) |-> [b.items[i] EXCEPT !.oid = oid]])
                   ELSE b
    IN  IF IsFilter(res) THEN Filter(Mark(res.must), res.should, Mark(res.must_not))
        ELSE res

Visit(node) ==
    CASE node.rule = "expression" ->
            Bind(Visit(node.first), LAMBDA first :
            Bind([i \in 1..Len(node.rest) |->
                     [op |-> node.rest[i].op,
                      term |-> Visit(node.rest[i].factor)]], LAMBDA rest :
                IF IsError(first) \/ \E i \in 1..Len(rest) : IsError(rest[i].term)
                THEN ErrorVal
                ELSE visit_expression(first, rest)))
      [] node.rule = "factor" ->
            Bind(Visit(node.body), LAMBDA body :
                IF IsError(body) THEN ErrorVal
                ELSE visit_factor(NotPart(node.not_part), List(<<body>>)))
      [] node.rule = "group" ->
            Bind(Visit(node.expr), LAMBDA expr :
                IF IsError(expr) THEN ErrorVal
                ELSE List(<<Str(<<"(">>), expr, Str(<<")">>)>>))
      [] node.rule = "condition" -> Created(visit_condition(node), node.oid)
      [] node.rule = "comparison" ->
            Created(visit_comparison(node.identifier, node.op,
                                     Operands(node.values)), node.oid)
      [] node.rule = "is_null_condition" ->
            Created(visit_is_null_condition(node.identifier, node.not_op), node.oid)
      [] node.rule = "is_empty_condition" ->
            Created(visit_is_empty_condition(node.identifier), node.oid)
      [] node.rule = "is_empty_array_condition" ->
            Created(visit_is_empty_array_condition(node.identifier), node.oid)
      [] node.rule = "values_count_condition" ->
            Created(visit_values_count_condition(node.identifier, node.op,
                                                 Operands(node.values)), node.oid)
      [] node.rule = "has_id_condition" ->
            Created(visit_has_id_condition(node.op, VisitValue(node.values[1])),
                    node.oid)

\* A where2filter that catches the parse error and returns None.
where2filter_swallow(where_clause) ==
    Bind(GrammarParse(where_clause), LAMBDA tree :
        IF ~tree.ok THEN NoneVal
        ELSE Bind(Visit(tree.node), LAMBDA res :
                IF ~IsFilter(res)
                THEN IF Truthy(res)
                     THEN Filter(List(<<res>>), NoneVal, NoneVal)
                     ELSE Filter(NoneVal, NoneVal, NoneVal)
                ELSE res))

\* where2filter(where_clause): a parse failure raises; otherwise the
\* visitor's result, wrapped when it is not a Filter.
where2filter(where_clause) ==
    Bind(GrammarParse(where_clause), LAMBDA tree :
        IF ~tree.ok THEN ErrorVal
        ELSE Bind(Visit(tree.node), LAMBDA res :
                IF ~IsFilter(res)
                THEN IF Truthy(res)
                     THEN Filter(List(<<res>>), NoneVal, NoneVal)
                     ELSE Filter(NoneVal, NoneVal, NoneVal)
                ELSE res))

(***************************************************************************)
(* The state machine: a caller builds a WHERE clause token by token and    *)
(* calls where2filter on it once.                                          *)
(***************************************************************************)

Init ==
    /\ input = <<>>
    /\ pc = "typing"
    /\ result = NoneVal

\* Tokens that start an operand, and tokens that may follow one.
StartsOperand(t) == t \in SpecLeafOps \cup {"(", "NOT"}

FollowsOperand(t) == t \in LogicalOps \cup {")"}

EndsOperand(t) == t \in LeafOps \cup {")"}

\* The caller appends one token.  Inputs alternate operands and operators;
\* parentheses need not balance and the input may stop anywhere.
TypeToken(t) ==
    /\ pc = "typing"
    /\ Len(input) < MaxTokens
    /\ IF input # <<>> /\ EndsOperand(input[Len(input)])
       THEN FollowsOperand(t)
       ELSE StartsOperand(t)
    /\ input' = Append(input, t)
    /\ UNCHANGED <<pc, result>>

\* The caller calls where2filter(input).
Call ==
    /\ pc = "typing"
    /\ result' = where2filter(input)
    /\ pc' = "done"
    /\ UNCHANGED input

Next ==
    \/ \E t \in SpecLeafOps \cup LogicalOps \cup {"(", ")", "NOT"} : TypeToken(t)
    \/ Call

Spec == Init /\ [][Next]_vars

(***************************************************************************)
(* A second caller builds only chains c1 op c2 op ... op cn of leaf        *)
(* conditions with one connective (all AND or all OR), the leaves ranging  *)
(* over every condition form.                                              *)
(***************************************************************************)

\* The connectives used so far in the input.
Connectives(toks) == {toks[i] : i \in {j \in 1..Len(toks) : toks[j] \in LogicalOps}}

\* The caller appends one more condition to the chain.
TypeCondition(op, conn) ==
    /\ pc = "typing"
    /\ NumLeaves(input) < MaxChain
    /\ Connectives(input) \subseteq {conn}
    /\ input' = IF input = <<>> THEN <<op>> ELSE input \o <<conn, op>>
    /\ UNCHANGED <<pc, result>>

NextChain ==
    \/ \E op \in LeafOps, conn \in LogicalOps : TypeCondition(op, conn)
    \/ Call

SpecChain == Init /\ [][NextChain]_vars

(***************************************************************************)
(* A third caller writes the WHERE clause as text.  Its input is the       *)
(* sequence of the words it wrote, each a sequence of characters; the      *)
(* clause is the words joined by single spaces.  It writes one whole       *)
(* condition at a time.                                                    *)
(***************************************************************************)

\* where2filter(where_clause) for a clause given as text.
where2filterText(where_clause) ==
    Bind(parse(where_clause), LAMBDA tree :
        IF ~tree.ok THEN ErrorVal
        ELSE Bind(Visit(tree.node), LAMBDA res :
                IF IsError(res) THEN ErrorVal
                ELSE IF ~IsFilter(res)
                THEN IF Truthy(res)
                     THEN Filter(List(<<res>>), NoneVal, NoneVal)
                     ELSE Filter(NoneVal, NoneVal, NoneVal)
                ELSE res))

\* " ".join(words)
RECURSIVE Text(_)
Text(words) ==
    IF words = <<>> THEN <<>>
    ELSE IF Len(words) = 1 THEN words[1]
    ELSE words[1] \o <<" ">> \o Text(Tail(words))

\* The words of the keywords and operators, as the caller writes them.
WordAnd == <<"A", "N", "D">>
WordOr == <<"O", "R">>
WordNot == <<"N", "O", "T">>
WordIn == <<"I", "N">>
WordIs == <<"I", "S">>
WordNull == <<"N", "U", "L", "L">>
WordEmpty == <<"E", "M", "P", "T", "Y">>
WordBetween == <<"B", "E", "T", "W", "E", "E", "N">>
WordLike == <<"L", "I", "K", "E">>

\* The operators of a comparison with one value.
ValueOps ==
    {<<"=">>, <<"!", "=">>, <<"<", ">">>, <<">">>, <<">", "=">>, <<"<">>,
     <<"<", "=">>, WordLike}

\* The range operators among them.
RangeOps == {<<">">>, <<">", "=">>, <<"<">>, <<"<", "=">>}

\* Field keys: a plain one, the reserved id and a dotted path with an array
\* projection.
KeyX == <<"x">>
KeyId == <<"i", "d">>
KeyPath == <<"a", ".", "b", "[", "]">>
Keys == {KeyX, KeyId, KeyPath}

\* A key spelled as the keyword NOT, for the conditions on emptiness.
KeyNot == <<"n", "o", "t">>
EmptinessKeys == Keys \cup {KeyNot}

\* Literals: numbers, strings (empty, a comma, plain, a date, a date and
\* time in UTC, a date inside escaped quotes), a boolean, the empty list.
LitOne == <<"1">>
LitTwo == <<"2">>
LitFloat == <<"-", "2", ".", "5", "0">>
LitEmpty == <<"'", "'">>
LitComma == <<"'", ",", "'">>
LitA == <<"'", "a", "'">>
LitDate == <<"'", "2", "0", "2", "3", "-", "0", "1", "-", "0", "2", "'">>
LitDateTimeZ ==
    <<"'", "2", "0", "2", "3", "-", "0", "1", "-", "0", "2", "T", "0", "3", ":",
      "0", "4", ":", "0", "5", "Z", "'">>
LitQuotedDate ==
    <<"'", "\\", "'", "2", "0", "2", "3", "-", "0", "1", "-", "0", "2", "\\",
      "'", "'">>
LitTrue == <<"T", "R", "U", "E">>
LitEmptyList == <<"[", "]">>

NumberLiterals == {LitOne, LitTwo, LitFloat}

StringLiterals == {LitEmpty, LitComma, LitA, LitDate, LitDateTimeZ, LitQuotedDate}

Literals == NumberLiterals \cup StringLiterals \cup {LitTrue, LitEmptyList}

\* The caller may start a condition: at the start, or after a connective.
MayStartCondition ==
    /\ pc = "typing"
    /\ IF input = <<>> THEN TRUE ELSE input[Len(input)] \in {WordAnd, WordOr}

\* key op literal
TypeComparison(key, op, lit) ==
    /\ MayStartCondition
    /\ input' = input \o <<key, op, lit>>
    /\ UNCHANGED <<pc, result>>

\* key [NOT] BETWEEN literal AND literal
TypeBetween(key, negated, lit1, lit2) ==
    /\ MayStartCondition
    /\ input' = input \o <<key>> \o (IF negated THEN <<WordNot>> ELSE <<>>)
                      \o <<WordBetween, lit1, WordAnd, lit2>>
    /\ UNCHANGED <<pc, result>>

\* The words of a list literal ( l1 , l2 , ... ).
ListWords(lits) ==
    <<<<"(">>>> \o Concat([i \in 1..Len(lits) |->
                            IF i = 1 THEN <<lits[i]>> ELSE <<<<",">>, lits[i]>>])
      \o <<<<")">>>>

\* key [NOT] IN ( literal , ... )
TypeIn(key, negated, lits) ==
    /\ MayStartCondition
    /\ input' = input \o <<key>> \o (IF negated THEN <<WordNot>> ELSE <<>>)
                      \o <<WordIn>> \o ListWords(lits)
    /\ UNCHANGED <<pc, result>>

\* key IS [NOT] NULL
TypeIsNull(key, negated) ==
    /\ MayStartCondition
    /\ input' = input \o <<key, WordIs>> \o (IF negated THEN <<WordNot>> ELSE <<>>)
                      \o <<WordNull>>
    /\ UNCHANGED <<pc, result>>

\* key IS EMPTY
TypeIsEmpty(key) ==
    /\ MayStartCondition
    /\ input' = input \o <<key, WordIs, WordEmpty>>
    /\ UNCHANGED <<pc, result>>

\* key = []
TypeEmptyArray(key) ==
    /\ MayStartCondition
    /\ input' = input \o <<key, <<"=">>, LitEmptyList>>
    /\ UNCHANGED <<pc, result>>

\* The caller calls where2filter on the text of its words.
CallText ==
    /\ pc = "typing"
    /\ result' = where2filterText(Text(input))
    /\ pc' = "done"
    /\ UNCHANGED input

\* The lists of at most n literals.
RECURSIVE ListsUpTo(_)
ListsUpTo(n) ==
    IF n = 0 THEN {<<>>}
    ELSE ListsUpTo(n - 1)
         \cup {Append(l, lit) : l \in {m \in ListsUpTo(n - 1) : Len(m) = n - 1},
                                lit \in Literals}

NextLeaf ==
    \/ \E key \in Keys, op \in ValueOps, lit \in Literals :
          TypeComparison(key, op, lit)
    \/ \E key \in Keys, negated \in BOOLEAN, lit1 \in Literals, lit2 \in Literals :
          TypeBetween(key, negated, lit1, lit2)
    \/ \E key \in Keys, negated \in BOOLEAN, lits \in ListsUpTo(MaxList) :
          TypeIn(key, negated, lits)
    \/ \E key \in Keys, negated \in BOOLEAN : TypeIsNull(key, negated)
    \/ \E key \in EmptinessKeys : TypeIsEmpty(key)
    \/ \E key \in EmptinessKeys : TypeEmptyArray(key)
    \/ CallText

SpecLeaf == Init /\ [][NextLeaf]_vars

(***************************************************************************)
(* A fourth caller writes range conditions as text and joins them with     *)
(* AND: comparisons with >= and <=, BETWEEN and NOT BETWEEN on the field   *)
(* x, and an equality on the field y.                                      *)
(***************************************************************************)

KeyY == <<"y">>

\* The bounds the caller writes: two numbers and a string that holds a date
\* inside escaped quotes.
RangeLiterals == {LitOne, LitTwo, LitQuotedDate}

\* The conditions written so far: one more than the logical ANDs, which are
\* the ANDs that do not belong to a BETWEEN.
NumConds(words) ==
    IF words = <<>> THEN 0
    ELSE 1 + Cardinality({i \in 1..Len(words) : words[i] = WordAnd})
           - Cardinality({i \in 1..Len(words) : words[i] = WordBetween})

\* The caller joins one more condition with AND.
TypeAnd ==
    /\ pc = "typing"
    /\ input # <<>>
    /\ input[Len(input)] # WordAnd
    /\ NumConds(input) < MaxConds
    /\ input' = Append(input, WordAnd)
    /\ UNCHANGED <<pc, result>>

NextRange ==
    \/ \E op \in {<<">", "=">>, <<"<", "=">>}, lit \in NumberLiterals \ {LitFloat} :
          TypeComparison(KeyX, op, lit)
    \/ TypeComparison(KeyY, <<"=">>, LitOne)
    \/ \E negated \in BOOLEAN, lit1 \in RangeLiterals, lit2 \in RangeLiterals :
          TypeBetween(KeyX, negated, lit1, lit2)
    \/ TypeAnd
    \/ CallText

SpecRange == Init /\ [][NextRange]_vars

(***************************************************************************)
(* A fifth caller writes one condition on the reserved identifier id or on *)
(* a field whose name begins with the letters id.  It may leave out the    *)
(* operator before a list.                                                 *)
(***************************************************************************)

KeyIdentity == <<"i", "d", "e", "n", "t", "i", "t", "y">>
KeyIdDotX == <<"i", "d", ".", "x">>
KeyIdin == <<"i", "d", "i", "n">>
KeyIdnot == <<"i", "d", "n", "o", "t">>
IdKeys == {KeyId, KeyIdentity, KeyIdDotX, KeyIdin, KeyIdnot}

\* The literals of the conditions on id: a number, strings (plain, the text
\* id, a UUID, a comma) and a string inside escaped quotes.
LitId == <<"'", "i", "d", "'">>
LitUuid ==
    <<"'", "5", "5", "0", "e", "8", "4", "0", "0", "-", "e", "2", "9", "b", "-",
      "4", "1", "d", "4", "-", "a", "7", "1", "6", "-", "4", "4", "6", "6", "5",
      "5", "4", "4", "0", "0", "0", "0", "'">>
LitQuotedA == <<"'", "\\", "'", "a", "\\", "'", "'">>
IdLiterals == {LitOne, LitA, LitId, LitUuid, LitComma, LitQuotedA}

\* The operators of has_id_condition that take one value.
IdOps == {<<"=">>, <<"!", "=">>, <<"<", ">">>}

\* The lists of at most n literals of a set.
RECURSIVE ListsOver(_, _)
ListsOver(lits, n) ==
    IF n = 0 THEN {<<>>}
    ELSE ListsOver(lits, n - 1)
         \cup {Append(l, lit) : l \in {m \in ListsOver(lits, n - 1) : Len(m) = n - 1},
                                lit \in lits}

\* key ( literal , ... ): a list without an operator before it.
TypeKeyList(key, lits) ==
    /\ MayStartCondition
    /\ input' = input \o <<key>> \o ListWords(lits)
    /\ UNCHANGED <<pc, result>>

NextId ==
    \/ \E key \in IdKeys, op \in IdOps, lit \in IdLiterals :
          TypeComparison(key, op, lit)
    \/ \E key \in IdKeys, negated \in BOOLEAN, lits \in ListsOver(IdLiterals, MaxList) :
          TypeIn(key, negated, lits)
    \/ \E key \in IdKeys, lits \in ListsOver(IdLiterals, MaxList) :
          TypeKeyList(key, lits)
    \/ CallText

SpecId == Init /\ [][NextId]_vars

(***************************************************************************)
(* A sixth caller writes one condition on the number of values of a field, *)
(* COUNT(field) op number, with numbers of every kind the grammar reads.   *)
(***************************************************************************)

\* COUNT(key), written as one word.
CountWord(key) == <<"C", "O", "U", "N", "T", "(">> \o key \o <<")">>

\* The operators of values_count_op that take one number, and two operators
\* that are not among them.
CountOps == RangeOps \cup {<<"=">>, <<"!", "=">>, WordLike}

\* The numbers: naturals, a negative integer and two fractions.
LitZero == <<"0">>
LitMinusOne == <<"-", "1">>
LitOneAndHalf == <<"1", ".", "5">>
CountNumbers == {LitZero, LitOne, LitTwo, LitMinusOne, LitOneAndHalf, LitFloat}

\* COUNT(key) op number
TypeCount(key, op, number) ==
    /\ MayStartCondition
    /\ input' = input \o <<CountWord(key), op, number>>
    /\ UNCHANGED <<pc, result>>

\* COUNT(key) BETWEEN number AND number
TypeCountBetween(key, number1, number2) ==
    /\ MayStartCondition
    /\ input' = input \o <<CountWord(key), WordBetween, number1, WordAnd, number2>>
    /\ UNCHANGED <<pc, result>>

NextCount ==
    \/ \E key \in Keys, op \in CountOps, number \in CountNumbers :
          TypeCount(key, op, number)
    \/ \E key \in Keys, number1 \in CountNumbers, number2 \in CountNumbers :
          TypeCountBetween(key, number1, number2)
    \/ CallText

SpecCount == Init /\ [][NextCount]_vars

(***************************************************************************)
(* A seventh caller writes fields whose names begin with the letters of a  *)
(* keyword, and spells the keywords in the letter case it likes.  It       *)
(* writes one condition, may negate it, may add a second condition with or *)
(* without a connective, and rewrites the keywords in its letter case when *)
(* it calls.                                                               *)
(***************************************************************************)

KeyAndroid == <<"a", "n", "d", "r", "o", "i", "d">>
KeyOrder == <<"o", "r", "d", "e", "r">>
KeyNotes == <<"n", "o", "t", "e", "s">>
KeyInbox == <<"i", "n", "b", "o", "x">>
KeyIsolated == <<"i", "s", "o", "l", "a", "t", "e", "d">>
KeyName == <<"N", "a", "m", "e">>

\* The keys that begin with the letters of AND, OR, NOT, IN, IS.
KeywordKeys == {KeyAndroid, KeyOrder, KeyNotes, KeyInbox, KeyIsolated}

CaseKeys == KeywordKeys \cup {KeyName}

\* Literals: booleans, a string in mixed case, a string that spells a
\* keyword.
LitFalse == <<"F", "A", "L", "S", "E">>
LitAb == <<"'", "A", "b", "'">>
LitAnd == <<"'", "a", "n", "d", "'">>

\* The letter cases the caller spells a keyword in: AND, and, aNd.
Styles == {"upper", "lower", "mixed"}

Spell(word, style) ==
    [i \in 1..Len(word) |->
        CASE style = "upper" -> ToUpper(word[i])
          [] style = "lower" -> ToLower(word[i])
          [] OTHER -> IF i % 2 = 1 THEN ToLower(word[i]) ELSE ToUpper(word[i])]

\* The words that are keywords, whatever their letter case.
IsKeywordWord(word) ==
    [i \in 1..Len(word) |-> ToLower(word[i])]
        \in {KwAnd, KwOr, KwNot, KwIn, KwLike, KwIs, KwNull, KwEmpty, KwTrue,
             KwFalse, KwBetween}

\* The word is COUNT(key), whatever the letter case of COUNT.
IsCountWord(word) ==
    /\ Len(word) > 6
    /\ [i \in 1..5 |-> ToLower(word[i])] = KwCount
    /\ word[6] = "("

\* The words with every keyword spelled in the style; keys and literals are
\* left as they are.
Respell(words, style) ==
    [i \in 1..Len(words) |->
        IF IsKeywordWord(words[i]) THEN Spell(words[i], style)
        ELSE IF IsCountWord(words[i])
        THEN Spell(SubSeq(words[i], 1, 5), style)
             \o SubSeq(words[i], 6, Len(words[i]))
        ELSE words[i]]

\* The positions of the words that name a field.
KeyPositions(words) ==
    {i \in 1..Len(words) :
        words[i] \in CaseKeys \/ IsCountWord(words[i])}

\* The caller negates the condition it wrote: NOT condition.
TypeNot ==
    /\ pc = "typing"
    /\ Cardinality(KeyPositions(input)) = 1
    /\ input[1] # WordNot
    /\ input' = <<WordNot>> \o input
    /\ UNCHANGED <<pc, result>>

\* The caller adds `key = 1` after its condition, with the connective conn
\* (one word, or no word at all) before it.
TypeJoin(conn, key) ==
    /\ pc = "typing"
    /\ Cardinality(KeyPositions(input)) = 1
    /\ input' = input \o conn \o <<key, <<"=">>, LitOne>>
    /\ UNCHANGED <<pc, result>>

\* The caller spells the keywords in its style and calls where2filter on
\* the text.
CallStyled(style) ==
    /\ pc = "typing"
    /\ input' = Respell(input, style)
    /\ result' = where2filterText(Text(Respell(input, style)))
    /\ pc' = "done"

NextKeywords ==
    \/ \E key \in CaseKeys, op \in {<<"=">>, WordLike},
          lit \in {LitOne, LitTrue, LitFalse, LitAb} :
          TypeComparison(key, op, lit)
    \/ \E key \in CaseKeys, negated \in BOOLEAN :
          TypeBetween(key, negated, LitOne, LitTwo)
    \/ \E key \in CaseKeys, negated \in BOOLEAN,
          lits \in {<<LitOne>>, <<LitAnd, LitAb>>} :
          TypeIn(key, negated, lits)
    \/ \E key \in CaseKeys, negated \in BOOLEAN : TypeIsNull(key, negated)
    \/ \E key \in CaseKeys : TypeIsEmpty(key)
    \/ \E key \in CaseKeys : TypeCount(key, <<"=">>, LitOne)
    \/ TypeNot
    \/ \E conn \in {<<WordAnd>>, <<WordOr>>, <<>>}, key \in {KeyAndroid, KeyOrder} :
          TypeJoin(conn, key)
    \/ \E style \in Styles : CallStyled(style)

SpecKeywords == Init /\ [][NextKeywords]_vars

(***************************************************************************)
(* Vocabulary of the properties.                                           *)
(***************************************************************************)

\* The items of a bucket (None counts as no items).
Items(b) == IF IsList(b) THEN b.items ELSE <<>>

Absent(b) == IsNone(b)

PureShould(f) ==
    IsFilter(f) /\ Truthy(f.should) /\ ~Truthy(f.must) /\ ~Truthy(f.must_not)

PureMustNot(f) ==
    IsFilter(f) /\ Truthy(f.must_not) /\ ~Truthy(f.must) /\ ~Truthy(f.should)

\* The condition object a leaf `field_k op 1` stands for, as the data
\* model of the backend names it.
Cond(op, k) ==
    LET Only(bound) ==
            RangeKwargs(IF bound = "gt" THEN IntVal(1) ELSE NoneVal,
                        IF bound \in {"gte", "both"} THEN IntVal(1) ELSE NoneVal,
                        IF bound = "lt" THEN IntVal(1) ELSE NoneVal,
                        IF bound \in {"lte", "both"} THEN IntVal(1) ELSE NoneVal)
        c == CASE op \in {"=", "!=", "<>"} ->
                    FieldCondition(k, "match", MatchValue(IntVal(1)))
               [] op = "IN" ->
                    FieldCondition(k, "match", MatchAny(List(<<IntVal(1)>>)))
               [] op = "NOT IN" ->
                    FieldCondition(k, "match", MatchExcept(List(<<IntVal(1)>>)))
               [] op = "LIKE" -> FieldCondition(k, "match", MatchText(IntVal(1)))
               [] op = ">" -> FieldCondition(k, "range", Range(Only("gt")))
               [] op = ">=" -> FieldCondition(k, "range", Range(Only("gte")))
               [] op = "<" -> FieldCondition(k, "range", Range(Only("lt")))
               [] op = "<=" -> FieldCondition(k, "range", Range(Only("lte")))
               [] op \in {"BETWEEN", "NOT BETWEEN"} ->
                    FieldCondition(k, "range", Range(Only("both")))
               [] op \in {"IS NULL", "IS NOT NULL"} -> IsNullCondition(k)
               [] op = "IS EMPTY" -> IsEmptyCondition(k)
    IN  [c EXCEPT !.oid = k]

\* The leaves of a chain, in input order, as [op, key] pairs.
ChainLeaves(toks) ==
    [k \in 1..NumLeaves(toks) |-> [op |-> toks[2 * k - 1], key |-> k]]

\* toks is c1 conn c2 conn ... conn cn with n >= 1 leaves.
IsChain(toks, conn) ==
    /\ Len(toks) % 2 = 1
    /\ \A i \in 1..Len(toks) :
          IF i % 2 = 1 THEN toks[i] \in LeafOps ELSE toks[i] = conn

\* The subsequence of s whose elements satisfy Keep.
SelectLeaves(s, ops) ==
    LET out[i \in 0..Len(s)] ==
            IF i = 0 THEN <<>>
            ELSE IF s[i].op \in ops THEN Append(out[i - 1], s[i])
                 ELSE out[i - 1]
    IN  out[Len(s)]

CondsOf(s) == [i \in 1..Len(s) |-> Cond(s[i].op, s[i].key)]

\* toks is exactly one factor / one whole expression.
IsFactor(toks) ==
    LET f == ParseFactor(toks, 1) IN f.ok /\ f.pos = Len(toks) + 1

IsExpression(toks) == GrammarParse(toks).ok

RECURSIVE Matches(_, _)
RECURSIVE AllMatch(_, _)
RECURSIVE AnyMatch(_, _)

AllMatch(entries, v) ==
    entries = <<>> \/ (Matches(Head(entries), v) /\ AllMatch(Tail(entries), v))

AnyMatch(entries, v) ==
    entries # <<>> /\ (Matches(Head(entries), v) \/ AnyMatch(Tail(entries), v))

\* The backend rule: every must entry matches, no must_not entry matches,
\* and if should is non-empty at least one should entry matches.  v says
\* which condition objects match the record.
Matches(x, v) ==
    IF IsFilter(x)
    THEN /\ AllMatch(Items(x.must), v)
         /\ ~AnyMatch(Items(x.must_not), v)
         /\ (Items(x.should) # <<>> => AnyMatch(Items(x.should), v))
    ELSE v[x.key]

RECURSIVE Holds(_, _)

\* The truth of the expression: AND and OR folded left to right at equal
\* precedence, NOT applying to the condition or group that follows it.  A
\* negated-form leaf (!=, <>, NOT BETWEEN, IS NOT NULL) is true exactly
\* when its condition object does not match.
Holds(node, v) ==
    CASE node.rule = "expression" ->
            LET acc[i \in 0..Len(node.rest)] ==
                    IF i = 0 THEN Holds(node.first, v)
                    ELSE IF node.rest[i].op = "AND"
                         THEN acc[i - 1] /\ Holds(node.rest[i].factor, v)
                         ELSE acc[i - 1] \/ Holds(node.rest[i].factor, v)
            IN  acc[Len(node.rest)]
      [] node.rule = "factor" ->
            IF node.not_part THEN ~Holds(node.body, v) ELSE Holds(node.body, v)
      [] node.rule = "group" -> Holds(node.expr, v)
      [] node.rule = "condition" ->
            IF node.op \in NegatedOps THEN ~v[node.key] ELSE v[node.key]

(***************************************************************************)
(* Properties.                                                             *)
(***************************************************************************)

\* C1: the returned Filter, evaluated by the backend rule, matches exactly
\* when the WHERE expression is true, for every expression and every
\* assignment of match / no-match to its conditions.
C1_SemanticsPreserved ==
    (pc = "done" /\ IsFilter(result)) =>
        \A v \in [1..NumLeaves(input) -> BOOLEAN] :
            Matches(result, v) = Holds(GrammarParse(input).node, v)

\* The splits of the input as A op1 B op2 C with A, B and C one factor each:
\* the positions <<i, j>> of op1 and op2.
TripleSplits(toks) ==
    {p \in (1..Len(toks)) \X (1..Len(toks)) :
        /\ p[1] < p[2]
        /\ toks[p[1]] \in LogicalOps
        /\ toks[p[2]] \in LogicalOps
        /\ IsFactor(SubSeq(toks, 1, p[1] - 1))
        /\ IsFactor(SubSeq(toks, p[1] + 1, p[2] - 1))
        /\ IsFactor(SubSeq(toks, p[2] + 1, Len(toks)))}

OperandA(toks, p) == SubSeq(toks, 1, p[1] - 1)

OperandB(toks, p) == SubSeq(toks, p[1] + 1, p[2] - 1)

OperandC(toks, p) == SubSeq(toks, p[2] + 1, Len(toks))

\* (A op1 B) op2 C and A op1 (B op2 C), written with parentheses.
GroupLeft(toks, p) ==
    <<"(">> \o OperandA(toks, p) \o <<toks[p[1]]>> \o OperandB(toks, p)
        \o <<")", toks[p[2]]>> \o OperandC(toks, p)

GroupRight(toks, p) ==
    OperandA(toks, p) \o <<toks[p[1]], "(">> \o OperandB(toks, p)
        \o <<toks[p[2]]>> \o OperandC(toks, p) \o <<")">>

\* C2: AND and OR have equal precedence and fold left to right: for all
\* operands a, b, c, `a OR b AND c` compiles to the filter of
\* `(a OR b) AND c` and `a AND b OR c` to the filter of `(a AND b) OR c`;
\* `a OR b AND c` never compiles to the filter of `a OR (b AND c)`.
C2_EqualPrecedenceLeftFold ==
    pc = "done" =>
        \A p \in TripleSplits(input) :
            (input[p[1]] # input[p[2]]) =>
                /\ IsFilter(result)
                /\ result = where2filter(GroupLeft(input, p))
                /\ (input[p[1]] = "OR" =>
                        result # where2filter(GroupRight(input, p)))

\* C2 witness: `a OR b AND c` on three conditions has been compiled to a
\* filter whose must holds the nested should filter of a, b and then c.
C2_Witness ==
    /\ pc = "done"
    /\ input = <<"=", "OR", "=", "AND", "=">>
    /\ IsFilter(result)
    /\ Len(Items(result.must)) = 2
    /\ PureShould(result.must.items[1])

OrContribution(leaf) ==
    IF leaf.op \in NegatedOps
    THEN Filter(NoneVal, NoneVal, List(<<Cond(leaf.op, leaf.key)>>))
    ELSE Cond(leaf.op, leaf.key)

\* C4 (as stated): every chain c1 OR ... OR cn (n >= 2) of conditions with
\* no AND and no NOT compiles to a filter with exactly these n conditions
\* in should, in input order, and nothing else.
C4_OrChainAllInShould ==
    (/\ pc = "done"
     /\ IsChain(input, "OR")
     /\ NumLeaves(input) >= 2
     /\ \A k \in 1..NumLeaves(input) :
            ChainLeaves(input)[k].op \notin {"NOT IN", "NOT BETWEEN", "IS NOT NULL"}) =>
        result = Filter(NoneVal, List(CondsOf(ChainLeaves(input))), NoneVal)

\* C4 (amended): every chain c1 OR ... OR cn (n >= 2) of conditions compiles
\* to a filter with only should, of n entries in input order: entry i is the
\* condition ci when ci is positive-form, and the nested filter
\* Filter(must_not=[ci's condition]) when ci is negated-form.
C4_OrChainContributions ==
    (pc = "done" /\ IsChain(input, "OR") /\ NumLeaves(input) >= 2) =>
        result = Filter(NoneVal,
                        List([k \in 1..NumLeaves(input) |->
                                 OrContribution(ChainLeaves(input)[k])]),
                        NoneVal)

\* C4 witness: an OR chain with a negated-form condition in the middle has
\* been compiled: should has three entries, the second a nested Filter.
C4_Witness ==
    /\ pc = "done"
    /\ input = <<"=", "OR", "!=", "OR", "LIKE">>
    /\ PureShould(result)
    /\ Len(result.should.items) = 3
    /\ IsFilter(result.should.items[2])

RECURSIVE KeysOf(_)

\* The fields (leaf indexes) of the conditions inside an entry.
KeysOf(x) ==
    IF IsFilter(x)
    THEN LET all == Items(x.must) \o Items(x.should) \o Items(x.must_not)
         IN  UNION {KeysOf(all[i]) : i \in 1..Len(all)}
    ELSE {x.key}

\* The entries of a list hold the leaves of the input in input order: all
\* leaves of an entry come before all leaves of the next entries, and no
\* leaf is missing.
InInputOrder(entries, n) ==
    /\ UNION {KeysOf(entries[i]) : i \in 1..Len(entries)} = 1..n
    /\ \A i, j \in 1..Len(entries) :
          i < j => \A a \in KeysOf(entries[i]), b \in KeysOf(entries[j]) : a < b

\* C5: pure-OR chains flatten regardless of grouping: for all operands A,
\* B, C, `A OR B OR C`, `(A OR B) OR C` and `A OR (B OR C)` compile to the
\* same filter, one should list holding the contributions of A, B and C in
\* that order, none of them a nested pure-should Filter.
C5_OrGroupingFlattens ==
    pc = "done" =>
        \A p \in TripleSplits(input) :
            (input[p[1]] = "OR" /\ input[p[2]] = "OR") =>
                /\ PureShould(result)
                /\ result = where2filter(GroupLeft(input, p))
                /\ result = where2filter(GroupRight(input, p))
                /\ \A i \in 1..Len(result.should.items) :
                      ~PureShould(result.should.items[i])
                /\ InInputOrder(result.should.items, NumLeaves(input))

\* C5 witness: `NOT a OR b OR c` has been compiled to a should list of three
\* entries, the first the nested filter of NOT a.
C5_Witness ==
    /\ pc = "done"
    /\ input = <<"NOT", "=", "OR", "=", "OR", "!=">>
    /\ PureShould(result)
    /\ Len(result.should.items) = 3
    /\ result = where2filter(<<"NOT", "=", "OR", "(", "=", "OR", "!=", ")">>)

\* C6 (as stated): for every expression E whose single negation NOT E
\* compiles to a filter with only must_not, "NOT NOT " + E compiles and
\* gives the same filter as E.
C6_NotNotIsIdentity ==
    (pc = "done" /\ IsFilter(result)
        /\ PureMustNot(where2filter(<<"NOT">> \o input))) =>
        /\ IsFilter(where2filter(<<"NOT", "NOT">> \o input))
        /\ where2filter(<<"NOT", "NOT">> \o input) = result

\* C6 (amended): "NOT NOT " + E never parses (a factor takes one NOT).  With
\* the inner negation in parentheses, whenever NOT E compiles to a filter
\* with only must_not, `NOT (NOT E)` compiles to Filter(must = the must_not
\* entries of that filter) with should and must_not absent; this is the
\* filter of E when E is a single positive-form condition, with or without
\* parentheses around it.
C6_DoubleNegation ==
    pc = "done" =>
        LET once == where2filter(<<"NOT">> \o input)
            twice == where2filter(<<"NOT", "(", "NOT">> \o input \o <<")">>)
        IN  /\ IsError(where2filter(<<"NOT", "NOT">> \o input))
            /\ PureMustNot(once) => twice = Filter(once.must_not, NoneVal, NoneVal)
            /\ (\E op \in PositiveOps : input \in {<<op>>, <<"(", op, ")">>}) =>
                    (PureMustNot(once) /\ twice = result)

\* C6 witness: E is one positive-form condition in parentheses, NOT E has
\* only must_not, and NOT (NOT E) gave the filter of E.
C6_Witness ==
    /\ pc = "done"
    /\ input = <<"(", "=", ")">>
    /\ PureMustNot(where2filter(<<"NOT">> \o input))
    /\ where2filter(<<"NOT", "(", "NOT">> \o input \o <<")">>) = result
    /\ Len(Items(result.must)) = 1

RECURSIVE NoEmptyBucket(_)

\* No bucket of x, at any depth, is an empty list.
NoEmptyBucket(x) ==
    IsFilter(x) =>
        \A b \in {x.must, x.should, x.must_not} :
            \/ IsNone(b)
            \/ /\ IsList(b)
               /\ Len(b.items) > 0
               /\ \A i \in 1..Len(b.items) : NoEmptyBucket(b.items[i])

RECURSIVE Depth(_)

\* The nesting depth of an entry: 0 for a condition.
Depth(x) ==
    IF IsFilter(x)
    THEN LET all == Items(x.must) \o Items(x.should) \o Items(x.must_not)
             ds == {Depth(all[i]) : i \in 1..Len(all)}
         IN  1 + (IF ds = {} THEN 0 ELSE CHOOSE d \in ds : \A e \in ds : e <= d)
    ELSE 0

\* C7: in every Filter where2filter returns, at every nesting depth, a
\* bucket is either absent or holds at least one entry.
C7_NoEmptyBucket ==
    (pc = "done" /\ IsFilter(result)) => NoEmptyBucket(result)

\* C7 witness: a filter with two levels of nested filters has been returned,
\* with an absent bucket at the top and non-empty must and must_not.
C7_Witness ==
    /\ pc = "done"
    /\ IsFilter(result)
    /\ Depth(result) >= 3
    /\ Absent(result.should)
    /\ Truthy(result.must)
    /\ Truthy(result.must_not)

\* C8: where2filter has two outcomes: it raises an error (and returns
\* nothing) or it returns a Filter node, never a bare condition, a list or
\* None; a single condition or a single parenthesized group gives a Filter.
C8_ErrorOrFilter ==
    /\ pc = "typing" => result = NoneVal
    /\ pc = "done" =>
        /\ IsError(result) \/ IsFilter(result)
        /\ IsError(result) <=> ~IsExpression(input)
        /\ IsFactor(input) => IsFilter(result)

\* C8 witness: a single parenthesized condition has been compiled and the
\* result is a Filter holding the condition in must.
C8_Witness ==
    /\ pc = "done"
    /\ input = <<"(", "=", ")">>
    /\ result = Filter(List(<<Cond("=", 1)>>), NoneVal, NoneVal)

\* A bucket holding the entries s: absent when there are none.
Bucket(s) == IF s = <<>> THEN NoneVal ELSE List(s)

\* The condition forms C9 names.
C9PositiveForms == {"=", "IN", "LIKE", ">", ">=", "<", "<=", "BETWEEN",
                    "IS NULL", "IS EMPTY"}

C9NegatedForms == {"!=", "<>", "NOT BETWEEN", "IS NOT NULL"}

\* C9: in an AND chain of leaf conditions every positive-form condition
\* ends in the top-level must and every negated-form condition in the
\* top-level must_not, each bucket in input order, with no nested Filter.
C9_AndChainBuckets ==
    (/\ pc = "done"
     /\ IsChain(input, "AND")
     /\ \A k \in 1..NumLeaves(input) :
            ChainLeaves(input)[k].op \in C9PositiveForms \cup C9NegatedForms) =>
        result = Filter(
            Bucket(CondsOf(SelectLeaves(ChainLeaves(input), C9PositiveForms))),
            NoneVal,
            Bucket(CondsOf(SelectLeaves(ChainLeaves(input), C9NegatedForms))))

\* C9 witness: a chain mixing both forms has been compiled: two conditions
\* in must, one in must_not.
C9_Witness ==
    /\ pc = "done"
    /\ input = <<"IS NOT NULL", "AND", "<", "AND", "BETWEEN">>
    /\ IsFilter(result)
    /\ Len(Items(result.must)) = 2
    /\ Len(Items(result.must_not)) = 1

RECURSIVE Shift(_, _)

\* x with every field index raised by d: the filter of an operand compiled
\* alone, renumbered to its place in the whole input.
Shift(x, d) ==
    IF IsFilter(x)
    THEN LET sh(b) == IF IsList(b)
                      THEN List([i \in 1..Len(b.items) |-> Shift(b.items[i], d)])
                      ELSE b
         IN  Filter(sh(x.must), sh(x.should), sh(x.must_not))
    ELSE [x EXCEPT !.key = @ + d, !.oid = @ + d]

\* The positions j of a last top-level AND: the input is P AND R with P a
\* whole expression and R one factor.
LastAndSplits(toks) ==
    {j \in 1..Len(toks) :
        /\ toks[j] = "AND"
        /\ IsExpression(SubSeq(toks, 1, j - 1))
        /\ IsFactor(SubSeq(toks, j + 1, Len(toks)))}

\* The entries of the should list of s lie nowhere directly in f's must or should.
NotFlattened(s, f) ==
    \A i \in 1..Len(s.should.items) :
        /\ \A k \in 1..Len(Items(f.must)) : f.must.items[k] # s.should.items[i]
        /\ \A k \in 1..Len(Items(f.should)) : f.should.items[k] # s.should.items[i]

\* C10: AND-merge never flattens a disjunction: when the left or the right
\* operand of AND is a filter with only should, the result's must holds
\* that whole Filter as one entry at the operand's place (first for the
\* left operand, last for the right one), and none of its should entries
\* lies directly in the result's must or should.
C10_AndKeepsDisjunction ==
    pc = "done" =>
        \A j \in LastAndSplits(input) :
            LET left == where2filter(SubSeq(input, 1, j - 1))
                right == Shift(where2filter(SubSeq(input, j + 1, Len(input))),
                               NumLeaves(SubSeq(input, 1, j)))
            IN  /\ IsFilter(result)
                /\ PureShould(left) =>
                      /\ Truthy(result.must)
                      /\ result.must.items[1] = left
                      /\ NotFlattened(left, result)
                /\ PureShould(right) =>
                      /\ Truthy(result.must)
                      /\ result.must.items[Len(result.must.items)] = right
                      /\ NotFlattened(right, result)

\* C10 witness: `c AND (a OR b)` has been compiled: must holds c and then
\* the should filter of the group as one nested entry.
C10_Witness ==
    /\ pc = "done"
    /\ input = <<"=", "AND", "(", "=", "OR", "!=", ")">>
    /\ IsFilter(result)
    /\ Len(Items(result.must)) = 2
    /\ PureShould(result.must.items[2])
    /\ Absent(result.should)

\* The positions j of a last top-level OR: the input is P OR R with P a
\* whole expression and R one factor.
LastOrSplits(toks) ==
    {j \in 1..Len(toks) :
        /\ toks[j] = "OR"
        /\ IsExpression(SubSeq(toks, 1, j - 1))
        /\ IsFactor(SubSeq(toks, j + 1, Len(toks)))}

\* The left operand of the last merge: what the loop of visit_expression
\* has built from P.
LeftOperand(toks, j) ==
    LET e == GrammarParse(SubSeq(toks, 1, j - 1)).node
    IN  FoldRest(Visit(e.first),
                 [i \in 1..Len(e.rest) |->
                     [op |-> e.rest[i].op, term |-> Visit(e.rest[i].factor)]])

\* The right operand of the last merge: the factor R, its leaves numbered
\* by their place in the whole input.
RightOperand(toks, j) ==
    Shift(Visit(ParseFactor(SubSeq(toks, j + 1, Len(toks)), 1).node),
          NumLeaves(SubSeq(toks, 1, j)))

\* A filter that holds one must entry and nothing else.
SingleMust(x) ==
    IsFilter(x) /\ Len(Items(x.must)) = 1 /\ ~Truthy(x.should) /\ ~Truthy(x.must_not)

\* What the claim says an operand of OR contributes.
StatedContribution(x) == IF PureShould(x) THEN x.should.items ELSE <<x>>

ActualContribution(x) ==
    IF PureShould(x) THEN x.should.items
    ELSE IF SingleMust(x) THEN <<x.must.items[1]>>
    ELSE <<x>>

NegatedTerm(toks) == _unwrap_group(where2filter(Tail(toks)))

\* toks is NOT followed by exactly one condition or one parenthesized group.
IsNotFactor(toks) ==
    /\ Len(toks) >= 2
    /\ toks[1] = "NOT"
    /\ toks[2] # "NOT"
    /\ IsFactor(toks)

\* C12: NOT applied to a term T that is not a filter with only must_not
\* yields Filter(must_not = [T]) with must and should absent.  T is the bare
\* condition when the term is one positive-form condition, and the whole
\* composite Filter of the group (its buckets untouched) when the term is a
\* parenthesized group that compiles to more than one bare condition.
C12_NotWrapsTerm ==
    (pc = "done" /\ IsNotFactor(input)) =>
        LET T == NegatedTerm(input)
        IN  /\ ~PureMustNot(T) =>
                    result = Filter(NoneVal, NoneVal, List(<<T>>))
            /\ input = <<"NOT", "=">> => T = Cond("=", 1)
            /\ IsFilter(T) => T = where2filter(Tail(input))

\* C12 witness: NOT over an OR group gave one must_not entry, the should
\* filter of the group.
C12_Witness ==
    /\ pc = "done"
    /\ input = <<"NOT", "(", "=", "OR", "=", ")">>
    /\ Absent(result.must) /\ Absent(result.should)
    /\ Len(Items(result.must_not)) = 1
    /\ PureShould(result.must_not.items[1])
    /\ Len(Items(result.must_not.items[1].should)) = 2

(***************************************************************************)
(* Vocabulary of the properties of one condition written as text.          *)
(***************************************************************************)

\* The value a literal denotes: a number by its digits, a string without its
\* outer quotes and with each escape decoded once, a boolean by its keyword.
Decoded(lit) ==
    IF lit[1] \in Digits \cup {"-"} THEN visit_number(lit)
    ELSE IF lit[1] = "'" THEN Str(Unescape(SubSeq(lit, 2, Len(lit) - 1)))
    ELSE BoolVal(Lower(lit) = Lower(LitTrue))

\* The words are `key IN ( ... )` / `key NOT IN ( ... )`.
IsInWords(words) == Len(words) >= 4 /\ words[2] = WordIn

IsNotInWords(words) ==
    Len(words) >= 5 /\ words[2] = WordNot /\ words[3] = WordIn

\* The literals of the list that opens at word number open.
ListLiterals(words, open) ==
    [i \in 1..((Len(words) - open) \div 2) |-> words[open + 2 * i - 1]]

\* The values v1..vn the literals of a list denote.
DecodedList(lits) == List([i \in 1..Len(lits) |-> Decoded(lits[i])])

\* The list holds value literals only (the empty-list marker [] is a
\* literal of the right-hand side of = alone).
ValueList(lits) == \A i \in 1..Len(lits) : lits[i] # LitEmptyList

\* x with the identity of the object left out.
Plain(x) == [x EXCEPT !.oid = 0]

\* C13: `field NOT IN (v1, ..., vn)` on an ordinary field compiles to
\* Filter(must = [FieldCondition(field, MatchExcept([v1..vn]))]), should and
\* must_not absent: a match-except condition in must holding exactly the
\* values of the list, never a MatchAny in must_not.
C13_NotInIsMatchExcept ==
    (pc = "done" /\ IsNotInWords(input) /\ input[1] # KeyId
        /\ ValueList(ListLiterals(input, 4))) =>
        /\ IsFilter(result)
        /\ Absent(result.should) /\ Absent(result.must_not)
        /\ Len(Items(result.must)) = 1
        /\ Plain(result.must.items[1])
             = FieldCondition(input[1], "match",
                              MatchExcept(DecodedList(ListLiterals(input, 4))))

\* C14: `field NOT IN (v1, ..., vn)`, the empty list included, compiles to
\* Filter(must_not = [FieldCondition(field, MatchAny([v1..vn]))]) with must
\* absent.
C14_NotInIsMustNotMatchAny ==
    (pc = "done" /\ IsNotInWords(input) /\ input[1] # KeyId
        /\ ValueList(ListLiterals(input, 4))) =>
        /\ IsFilter(result)
        /\ Absent(result.must)
        /\ Len(Items(result.must_not)) = 1
        /\ Plain(result.must_not.items[1])
             = FieldCondition(input[1], "match",
                              MatchAny(DecodedList(ListLiterals(input, 4))))

\* Every entry of the three buckets of a filter.
Entries(f) == Items(f.must) \o Items(f.should) \o Items(f.must_not)

IsBetweenWords(words) == Len(words) >= 5 /\ words[2] = WordBetween

IsNotBetweenWords(words) ==
    Len(words) >= 6 /\ words[2] = WordNot /\ words[3] = WordBetween

\* e is one range condition on key with gte = v1 and lte = v2 and no other
\* bound.
IsRangeBetween(e, key, v1, v2) ==
    /\ e.type = "FieldCondition"
    /\ e.key = key
    /\ e.attr = "range"
    /\ e.model.type \in {"Range", "DatetimeRange"}
    /\ e.model.gte = v1 /\ e.model.lte = v2
    /\ IsNone(e.model.gt) /\ IsNone(e.model.lt)

\* C16: `field BETWEEN v1 AND v2` compiles to one range condition with
\* gte = v1 and lte = v2 (gt and lt absent) in must, `field NOT BETWEEN v1
\* AND v2` to the same condition in must_not, and in `x BETWEEN v1 AND v2
\* AND y = 1` the AND of the BETWEEN is not the logical AND: the range and
\* the match on y are both in must.
C16_BetweenIsOneRange ==
    pc = "done" =>
        /\ (IsBetweenWords(input) /\ Len(input) = 5) =>
              /\ IsFilter(result)
              /\ Absent(result.should) /\ Absent(result.must_not)
              /\ Len(Items(result.must)) = 1
              /\ IsRangeBetween(result.must.items[1], input[1],
                                Decoded(input[3]), Decoded(input[5]))
        /\ (IsNotBetweenWords(input) /\ Len(input) = 6) =>
              /\ IsFilter(result)
              /\ Absent(result.should) /\ Absent(result.must)
              /\ Len(Items(result.must_not)) = 1
              /\ IsRangeBetween(result.must_not.items[1], input[1],
                                Decoded(input[4]), Decoded(input[6]))
        /\ (IsBetweenWords(input) /\ Len(input) = 9
                /\ SubSeq(input, 6, 9) = <<WordAnd, KeyY, <<"=">>, LitOne>>) =>
              /\ IsFilter(result)
              /\ Absent(result.should) /\ Absent(result.must_not)
              /\ Len(Items(result.must)) = 2
              /\ IsRangeBetween(result.must.items[1], input[1],
                                Decoded(input[3]), Decoded(input[5]))
              /\ Plain(result.must.items[2])
                   = FieldCondition(KeyY, "match", MatchValue(IntVal(1)))

\* The literal is a string whose value parses as an ISO-8601 datetime.
IsoLiteral(lit) ==
    lit \in StringLiterals /\ fromisoformat(ReplaceZ(Decoded(lit).text))

\* The literals that may bound a range: numbers and strings.
BoundLiterals == NumberLiterals \cup StringLiterals

\* The words are one range condition `key op l`, `key BETWEEN l1 AND l2` or
\* `key NOT BETWEEN l1 AND l2`, with numbers or strings for bounds.
IsRangeWords(words) ==
    \/ Len(words) = 3 /\ words[2] \in RangeOps /\ words[3] \in BoundLiterals
    \/ IsBetweenWords(words) /\ Len(words) = 5
         /\ {words[3], words[5]} \subseteq BoundLiterals
    \/ IsNotBetweenWords(words) /\ Len(words) = 6
         /\ {words[4], words[6]} \subseteq BoundLiterals

\* The bound literals of a range condition, in the order written.
BoundsOf(words) ==
    IF Len(words) = 3 THEN <<words[3]>>
    ELSE IF Len(words) = 5 THEN <<words[3], words[5]>>
    ELSE <<words[4], words[6]>>

\* The bounds a range condition sets, holding the values of its literals.
StatedKwargs(words) ==
    LET b == BoundsOf(words)
        op == words[2]
    IN  IF Len(words) = 3
        THEN RangeKwargs(IF op = <<">">> THEN Decoded(b[1]) ELSE NoneVal,
                         IF op = <<">", "=">> THEN Decoded(b[1]) ELSE NoneVal,
                         IF op = <<"<">> THEN Decoded(b[1]) ELSE NoneVal,
                         IF op = <<"<", "=">> THEN Decoded(b[1]) ELSE NoneVal)
        ELSE RangeKwargs(NoneVal, Decoded(b[1]), NoneVal, Decoded(b[2]))

\* C17: for >, >=, <, <=, BETWEEN and NOT BETWEEN the emitted range is a
\* datetime range if and only if every bound literal of the condition is a
\* string that parses as an ISO-8601 datetime; if some bound is a number or
\* a string that is no datetime, a numeric range holding the original values
\* is emitted.
C17_DatetimeRangeIffAllBoundsParse ==
    (pc = "done" /\ IsRangeWords(input)) =>
        LET b == BoundsOf(input)
            allIso == \A i \in 1..Len(b) : IsoLiteral(b[i])
        IN  /\ IsFilter(result)
            /\ Len(Entries(result)) = 1
            /\ Entries(result)[1].attr = "range"
            /\ Entries(result)[1].model.type = "DatetimeRange" <=> allIso
            /\ ~allIso => Entries(result)[1].model = Range(StatedKwargs(input))

\* The words are `x >= n AND x <= n` for one number n.
IsGteAndLteWords(words) ==
    /\ Len(words) = 7
    /\ words[1] = KeyX /\ words[2] = <<">", "=">> /\ words[3] \in NumberLiterals
    /\ words[4] = WordAnd
    /\ words[5] = KeyX /\ words[6] = <<"<", "=">> /\ words[7] = words[3]

\* The words are `x BETWEEN n AND n` for one number n.
IsBetweenSameWords(words) ==
    /\ IsBetweenWords(words) /\ Len(words) = 5
    /\ words[1] = KeyX /\ words[3] \in NumberLiterals /\ words[5] = words[3]

\* must holds a range condition on x with gte = n and lte = n.
HasRangeGteLte(f, n) ==
    /\ IsFilter(f)
    /\ \E i \in 1..Len(Items(f.must)) :
          LET e == f.must.items[i]
          IN  /\ e.type = "FieldCondition" /\ e.key = KeyX /\ e.attr = "range"
              /\ e.model.type = "Range"
              /\ e.model.gte = n /\ e.model.lte = n

\* C18 (as stated): for every numeric bound n, `x >= n AND x <= n` and
\* `x BETWEEN n AND n` both compile to a filter whose must holds a range
\* condition on x with gte = n and lte = n.
C18_BothFormsOneRange ==
    (pc = "done" /\ (IsGteAndLteWords(input) \/ IsBetweenSameWords(input))) =>
        HasRangeGteLte(result, Decoded(input[3]))

\* C18 (amended): for every numeric bound n, `x BETWEEN n AND n` compiles to
\* a filter whose must holds one range condition on x with gte = n and
\* lte = n, and `x >= n AND x <= n` to a filter whose must holds two range
\* conditions on x, the first with gte = n alone and the second with
\* lte = n alone; should and must_not are absent in both.
C18_BetweenOneRangeAndTwoRanges ==
    pc = "done" =>
        /\ IsBetweenSameWords(input) =>
              LET n == Decoded(input[3])
              IN  /\ HasRangeGteLte(result, n)
                  /\ Len(Entries(result)) = 1
                  /\ IsRangeBetween(result.must.items[1], KeyX, n, n)
        /\ IsGteAndLteWords(input) =>
              LET n == Decoded(input[3])
              IN  /\ IsFilter(result)
                  /\ Absent(result.should) /\ Absent(result.must_not)
                  /\ Len(Items(result.must)) = 2
                  /\ Plain(result.must.items[1])
                       = FieldCondition(KeyX, "range",
                            Range(RangeKwargs(NoneVal, n, NoneVal, NoneVal)))
                  /\ Plain(result.must.items[2])
                       = FieldCondition(KeyX, "range",
                            Range(RangeKwargs(NoneVal, NoneVal, NoneVal, n)))

\* C18 witness: `x >= 2 AND x <= 2` was compiled and must holds two range
\* conditions.
C18_Witness ==
    /\ pc = "done"
    /\ input = <<KeyX, <<">", "=">>, LitTwo, WordAnd, KeyX, <<"<", "=">>, LitTwo>>
    /\ IsFilter(result)
    /\ Len(Items(result.must)) = 2
    /\ result.must.items[1].model.gte = IntVal(2)
    /\ result.must.items[2].model.lte = IntVal(2)

\* C19: `field IS NULL` compiles to Filter(must = [IsNull(field)]) and
\* `field IS NOT NULL` to Filter(must_not = [IsNull(field)]), the other
\* buckets absent: the NOT between IS and NULL alone selects the bucket, and
\* the key of the condition is the field as written.
C19_IsNullBuckets ==
    (pc = "done" /\ Len(input) >= 3 /\ input[2] = WordIs) =>
        /\ SubSeq(input, 3, Len(input)) = <<WordNull>> =>
              /\ IsFilter(result)
              /\ Absent(result.should) /\ Absent(result.must_not)
              /\ Len(Items(result.must)) = 1
              /\ Plain(result.must.items[1]) = IsNullCondition(input[1])
        /\ SubSeq(input, 3, Len(input)) = <<WordNot, WordNull>> =>
              /\ IsFilter(result)
              /\ Absent(result.should) /\ Absent(result.must)
              /\ Len(Items(result.must_not)) = 1
              /\ Plain(result.must_not.items[1]) = IsNullCondition(input[1])

\* C19 witness: `a.b[] IS NOT NULL` was compiled and must_not holds the
\* is-null condition on a.b[].
C19_Witness ==
    /\ pc = "done"
    /\ input = <<KeyPath, WordIs, WordNot, WordNull>>
    /\ IsFilter(result)
    /\ Len(Items(result.must_not)) = 1
    /\ result.must_not.items[1].type = "IsNullCondition"
    /\ result.must_not.items[1].key = KeyPath

\* C20 (as stated): for every field key f, the key id included, `f = []` and
\* `f IS EMPTY` compile to the same filter, Filter(must = [IsEmpty(f)]) with
\* should and must_not absent; `f = []` is never an equality match on a
\* value.
C20_EmptyArrayIsIsEmpty ==
    (pc = "done" /\ Len(input) = 3
        /\ SubSeq(input, 2, 3) \in {<<<<"=">>, LitEmptyList>>, <<WordIs, WordEmpty>>}) =>
        /\ IsFilter(result)
        /\ Absent(result.should) /\ Absent(result.must_not)
        /\ Len(Items(result.must)) = 1
        /\ Plain(result.must.items[1]) = IsEmptyCondition(input[1])
        /\ result = where2filterText(Text(<<input[1], <<"=">>, LitEmptyList>>))
        /\ result = where2filterText(Text(<<input[1], WordIs, WordEmpty>>))

\* The key begins with the keyword NOT as the grammar reads it: the letters
\* n, o, t in any case, not followed by a letter, a digit or an underscore.
BeginsWithNot(key) == parse_keyword(key, 1, KwNot) # 0

\* C20 (amended): for every field key f that does not begin with the
\* keyword NOT, the key id included, `f = []` and `f IS EMPTY` compile to
\* the same filter, Filter(must = [IsEmpty(f)]) with should and must_not
\* absent, and `f = []` is never an equality match on a value; for a key
\* that begins with the keyword NOT both inputs are rejected.
C20_EmptyArrayIsIsEmptyUnlessNot ==
    (pc = "done" /\ Len(input) = 3
        /\ SubSeq(input, 2, 3) \in {<<<<"=">>, LitEmptyList>>, <<WordIs, WordEmpty>>}) =>
        IF BeginsWithNot(input[1])
        THEN /\ IsError(result)
             /\ IsError(where2filterText(Text(<<input[1], <<"=">>, LitEmptyList>>)))
             /\ IsError(where2filterText(Text(<<input[1], WordIs, WordEmpty>>)))
        ELSE /\ IsFilter(result)
             /\ Absent(result.should) /\ Absent(result.must_not)
             /\ Len(Items(result.must)) = 1
             /\ Plain(result.must.items[1]) = IsEmptyCondition(input[1])
             /\ result = where2filterText(Text(<<input[1], <<"=">>, LitEmptyList>>))
             /\ result = where2filterText(Text(<<input[1], WordIs, WordEmpty>>))

\* C20 witness: `id = []` was compiled to the is-empty condition on id.
C20_Witness ==
    /\ pc = "done"
    /\ input = <<KeyId, <<"=">>, LitEmptyList>>
    /\ IsFilter(result)
    /\ Len(Items(result.must)) = 1
    /\ result.must.items[1].type = "IsEmptyCondition"
    /\ result.must.items[1].key = KeyId

(***************************************************************************)
(* The reserved identifier id, COUNT(...), literal decoding, keywords.     *)
(***************************************************************************)

\* The filter is one condition in must / in must_not, and nothing else.
OnlyMust(f, cond) ==
    /\ IsFilter(f)
    /\ Absent(f.should) /\ Absent(f.must_not)
    /\ Len(Items(f.must)) = 1
    /\ Plain(f.must.items[1]) = cond

OnlyMustNot(f, cond) ==
    /\ IsFilter(f)
    /\ Absent(f.should) /\ Absent(f.must)
    /\ Len(Items(f.must_not)) = 1
    /\ Plain(f.must_not.items[1]) = cond

\* C21: for the reserved identifier id, `id = v` compiles to HasId([v]) in
\* must and `id IN (v1, ..., vn)` to HasId([v1..vn]) in must; `id != v`,
\* `id <> v` and `id NOT IN (...)` give the same HasId condition in must_not.
\* Every value is the one its literal denotes, with its type: an integer
\* for an integer literal, a string for a quoted literal.
C21_IdIsHasId ==
    (pc = "done" /\ Len(input) >= 3 /\ input[1] = KeyId) =>
        /\ (Len(input) = 3 /\ input[2] = <<"=">> /\ input[3] # LitEmptyList) =>
              OnlyMust(result, HasIdCondition(List(<<Decoded(input[3])>>)))
        /\ (Len(input) = 3 /\ input[2] \in {<<"!", "=">>, <<"<", ">">>}
                /\ input[3] # LitEmptyList) =>
              OnlyMustNot(result, HasIdCondition(List(<<Decoded(input[3])>>)))
        /\ (IsInWords(input) /\ ValueList(ListLiterals(input, 3))) =>
              OnlyMust(result,
                       HasIdCondition(DecodedList(ListLiterals(input, 3))))
        /\ (IsNotInWords(input) /\ ValueList(ListLiterals(input, 4))) =>
              OnlyMustNot(result,
                          HasIdCondition(DecodedList(ListLiterals(input, 4))))

\* The literal is a quoted string.
IsStringLiteral(lit) == lit[1] = "'"

\* C22: for every quoted string literal s, whatever its text, `id = 's'`
\* compiles without error to Filter(must = [HasId([s])]): one HasId
\* condition whose list has exactly one entry, the string s.
C22_IdEqualsStringIsHasId ==
    (pc = "done" /\ Len(input) = 3 /\ input[1] = KeyId /\ input[2] = <<"=">>
        /\ IsStringLiteral(input[3])) =>
        OnlyMust(result, HasIdCondition(List(<<Decoded(input[3])>>)))

\* The words are `COUNT(key) ...` for one of the caller's keys.
IsCountWords(words) ==
    Len(words) >= 3 /\ \E key \in Keys : words[1] = CountWord(key)

\* The key inside COUNT(key).
CountKey(word) == SubSeq(word, 7, Len(word) - 1)

\* The literal is a natural number: digits only.
IsNaturalLiteral(lit) == \A i \in 1..Len(lit) : lit[i] \in Digits

\* Filter(must = [FieldCondition(key, values_count = {gt, gte, lt, lte})]),
\* a bound that is not set being None.
IsCountFilter(f, key, gt, gte, lt, lte) ==
    OnlyMust(f, FieldCondition(key, "values_count",
                               ValuesCount(RangeKwargs(gt, gte, lt, lte))))

\* C23: `COUNT(f) op n`, n a natural number, compiles to
\* Filter(must = [FieldCondition(key = f, values_count = ...)]) where `= n`
\* gives gte = lte = n, `BETWEEN a AND b` gives gte = a and lte = b, and
\* each of >, >=, <, <= sets only the bound gt, gte, lt, lte; no other
\* bound is set.
C23_CountBounds ==
    (pc = "done" /\ IsCountWords(input)) =>
        LET f == CountKey(input[1])
            n == Decoded(input[3])
        IN  /\ (Len(input) = 3 /\ IsNaturalLiteral(input[3])) =>
                  /\ input[2] = <<"=">> =>
                        IsCountFilter(result, f, NoneVal, n, NoneVal, n)
                  /\ input[2] = <<">">> =>
                        IsCountFilter(result, f, n, NoneVal, NoneVal, NoneVal)
                  /\ input[2] = <<">", "=">> =>
                        IsCountFilter(result, f, NoneVal, n, NoneVal, NoneVal)
                  /\ input[2] = <<"<">> =>
                        IsCountFilter(result, f, NoneVal, NoneVal, n, NoneVal)
                  /\ input[2] = <<"<", "=">> =>
                        IsCountFilter(result, f, NoneVal, NoneVal, NoneVal, n)
            /\ (Len(input) = 5 /\ input[2] = WordBetween
                    /\ IsNaturalLiteral(input[3]) /\ IsNaturalLiteral(input[5])) =>
                  IsCountFilter(result, f, NoneVal, n, NoneVal, Decoded(input[5]))

\* C23 witness: `COUNT(a.b[]) = 2` was compiled to a values-count condition
\* with gte = lte = 2 and no other bound.
C23_Witness ==
    /\ pc = "done"
    /\ input = <<CountWord(KeyPath), <<"=">>, LitTwo>>
    /\ IsCountFilter(result, KeyPath, NoneVal, IntVal(2), NoneVal, IntVal(2))

\* The characters between the outer quotes of a string literal with each
\* escape decoded once, in one pass from left to right: a backslash stands
\* for the character that follows it.
RECURSIVE DecodeOnce(_)
DecodeOnce(s) ==
    IF s = <<>> THEN <<>>
    ELSE IF s[1] = "\\" /\ Len(s) > 1
         THEN <<s[2]>> \o DecodeOnce(SubSeq(s, 3, Len(s)))
         ELSE <<s[1]>> \o DecodeOnce(Tail(s))

\* The string a quoted literal denotes.
StringOf(lit) == Str(DecodeOnce(SubSeq(lit, 2, Len(lit) - 1)))

\* The values a condition holds: the value of a match, the bounds of a
\* range that are set, the entries of an id list.
ValuesOf(cond) ==
    IF cond.type = "HasIdCondition"
    THEN {cond.has_id.items[i] : i \in 1..Len(cond.has_id.items)}
    ELSE IF cond.attr = "match" THEN {cond.model.value}
    ELSE {cond.model.gt, cond.model.gte, cond.model.lt, cond.model.lte}
             \ {NoneVal}

\* C24: a single-quoted string literal reaches the emitted condition as the
\* literal without its outer quotes and with each escape decoded exactly
\* once.  For `key op 's'` with op one of =, !=, <>, >, >=, <, <=, LIKE the
\* filter has one condition and its one value is that string: no leading
\* or trailing quote of the value is removed, no escape is decoded twice.
C24_StringDecodedOnce ==
    (pc = "done" /\ Len(input) = 3 /\ input[1] \in Keys /\ input[2] \in ValueOps
        /\ IsStringLiteral(input[3])) =>
        /\ IsFilter(result)
        /\ Len(Entries(result)) = 1
        /\ ValuesOf(Entries(result)[1]) = {StringOf(input[3])}

\* The value list of a condition made from a list literal.
ListOf(cond) ==
    IF cond.type = "HasIdCondition" THEN cond.has_id ELSE cond.model.value

\* C25: for every list literal (v1, ..., vn) used with IN or NOT IN, on an
\* ordinary field or on id, the value list of the emitted condition is
\* exactly the decoded literals v1..vn: same length, same order, duplicates
\* kept, no element dropped whatever its value.
C25_ListKeepsEveryValue ==
    (pc = "done" /\ Len(input) >= 4 /\ input[1] \in Keys
        /\ (IsInWords(input) \/ IsNotInWords(input))) =>
        LET lits == ListLiterals(input, IF IsInWords(input) THEN 3 ELSE 4)
        IN  ValueList(lits) =>
              /\ IsFilter(result)
              /\ Len(Entries(result)) = 1
              /\ ListOf(Entries(result)[1]) = DecodedList(lits)

\* The fields the caller named, in COUNT(...) or not.
WrittenKeys(words) ==
    {IF IsCountWord(words[i]) THEN CountKey(words[i]) ELSE words[i] :
        i \in KeyPositions(words)}

\* The word is AND or OR, whatever its letter case.
IsConnective(word) == [i \in 1..Len(word) |-> ToLower(word[i])] \in {KwAnd, KwOr}

\* Two conditions were written side by side, without a connective between
\* them.
Juxtaposed(words) ==
    /\ Cardinality(KeyPositions(words)) = 2
    /\ \E j \in KeyPositions(words) :
          /\ \A i \in KeyPositions(words) : i <= j
          /\ ~IsConnective(words[j - 1])

\* C26: a keyword is recognised only when no letter, digit or underscore
\* follows it, so an identifier that begins with the letters of a keyword
\* (android, order, notes, inbox, isolated) is a field name.  `android = 1`
\* compiles to Filter(must = [MatchValue(android, 1)]); every well-formed
\* clause compiles to a filter whose conditions are on exactly the fields
\* written, under their full names; and in `... android = 1` after a
\* complete condition the letters and of android are not read as the
\* connective AND: the clause is rejected.
C26_KeywordPrefixIsIdentifier ==
    (pc = "done" /\ input # <<>>) =>
        /\ (Len(input) = 3 /\ input[1] \in KeywordKeys /\ input[2] = <<"=">>
                /\ input[3] = LitOne) =>
              OnlyMust(result, FieldCondition(input[1], "match",
                                              MatchValue(IntVal(1))))
        /\ ~Juxtaposed(input) =>
              /\ IsFilter(result)
              /\ KeysOf(result) = WrittenKeys(input)
        /\ Juxtaposed(input) => IsError(result)

\* C26 witness: `NOT notes IS NOT NULL OR order = 1` was compiled to a
\* filter on the fields notes and order.
C26_Witness ==
    /\ pc = "done"
    /\ input = <<WordNot, KeyNotes, WordIs, WordNot, WordNull, WordOr, KeyOrder,
                 <<"=">>, LitOne>>
    /\ IsFilter(result)
    /\ KeysOf(result) = {KeyNotes, KeyOrder}

\* C27: the compiled filter does not depend on the letter case of the
\* keywords (AND, OR, NOT, IN, IS, NULL, EMPTY, TRUE, FALSE, BETWEEN, LIKE,
\* COUNT): a clause compiles to the filter of the same clause with its
\* keywords in upper case.  Field keys and string values keep the case they
\* were written in.
C27_KeywordCaseIrrelevant ==
    pc = "done" =>
        /\ result = where2filterText(Text(Respell(input, "upper")))
        /\ (Len(input) = 3 /\ input[1] \in CaseKeys /\ IsStringLiteral(input[3])) =>
              /\ IsFilter(result)
              /\ Len(Entries(result)) = 1
              /\ Entries(result)[1].key = input[1]
              /\ ValuesOf(Entries(result)[1]) = {StringOf(input[3])}
        /\ (Len(input) >= 7 /\ input[1] \in CaseKeys
                /\ \/ Len(input) = 7 /\ IsInWords(Respell(input, "upper"))
                   \/ Len(input) = 8 /\ IsNotInWords(Respell(input, "upper"))) =>
              /\ IsFilter(result)
              /\ Len(Entries(result)) = 1
              /\ Entries(result)[1].key = input[1]
              /\ ListOf(Entries(result)[1])
                   = List(<<Str(<<"a", "n", "d">>), Str(<<"A", "b">>)>>)

\* C27 witness: `Name nOt iN ( 'and' , 'Ab' )` was compiled to a
\* match-except condition on Name with the values 'and' and 'Ab'.
C27_Witness ==
    /\ pc = "done"
    /\ input = <<KeyName, <<"n", "O", "t">>, <<"i", "N">>, <<"(">>, LitAnd,
                 <<",">>, LitAb, <<")">>>>
    /\ OnlyMust(result,
                FieldCondition(KeyName, "match",
                               MatchExcept(List(<<Str(<<"a", "n", "d">>),
                                                  Str(<<"A", "b">>)>>))))

RECURSIVE CountConditions(_)

\* The values-count conditions of an entry, at every depth.
CountConditions(x) ==
    IF IsFilter(x)
    THEN UNION {CountConditions(Entries(x)[i]) : i \in 1..Len(Entries(x))}
    ELSE IF x.type = "FieldCondition" /\ x.attr = "values_count" THEN {x}
    ELSE {}

\* The bound is not set, or is a non-negative integer.
IsCountBound(b) == IsNone(b) \/ (b.type = "int" /\ b.val >= 0)

\* C28: every bound (gt, gte, lt, lte) of every values-count condition the
\* compiler returns is a non-negative integer: COUNT(...) compared with a
\* negative or fractional number never yields a filter.
C28_CountBoundsAreNaturals ==
    (pc = "done" /\ IsFilter(result)) =>
        \A cond \in CountConditions(result) :
            /\ IsCountBound(cond.model.gt) /\ IsCountBound(cond.model.gte)
            /\ IsCountBound(cond.model.lt) /\ IsCountBound(cond.model.lte)

RECURSIVE HasIdConditions(_)

\* The HasId conditions of an entry, at every depth.
HasIdConditions(x) ==
    IF IsFilter(x)
    THEN UNION {HasIdConditions(Entries(x)[i]) : i \in 1..Len(Entries(x))}
    ELSE IF x.type = "HasIdCondition" THEN {x}
    ELSE {}

\* C29: a HasId condition is emitted only when the left operand is exactly
\* the identifier id.  A clause whose left operand merely begins with the
\* letters id (identity, id.x, idin, idnot) is rejected or compiled to one
\* ordinary field condition on that full key, never to a HasId condition.
C29_HasIdOnlyForId ==
    (pc = "done" /\ input # <<>> /\ input[1] \in IdKeys \ {KeyId}) =>
        \/ IsError(result)
        \/ /\ IsFilter(result)
           /\ HasIdConditions(result) = {}
           /\ Len(Entries(result)) = 1
           /\ Entries(result)[1].type = "FieldCondition"
           /\ Entries(result)[1].key = input[1]

(***************************************************************************)
(* The shape of every filter made during a visit.                          *)
(***************************************************************************)

\* The filter has should together with must or must_not.
Mixed(f) ==
    IsFilter(f) /\ Truthy(f.should) /\ (Truthy(f.must) \/ Truthy(f.must_not))

RECURSIVE NoMixedFilter(_)

\* No filter in x, at any depth, is mixed.
NoMixedFilter(x) ==
    IsFilter(x) =>
        /\ ~Mixed(x)
        /\ \A i \in 1..Len(Entries(x)) : NoMixedFilter(Entries(x)[i])

RECURSIVE VisitedValues(_)

\* Every value made during the visit of a node: what each visitor method
\* returns and what each merge_filters call of visit_expression returns.
\* The operands of a merge are among them: the first factor or the previous
\* merge on the left, a factor on the right.
VisitedValues(node) ==
    CASE node.rule = "expression" ->
            Bind(Visit(node.first), LAMBDA first :
            Bind([i \in 1..Len(node.rest) |->
                     [op |-> node.rest[i].op,
                      term |-> Visit(node.rest[i].factor)]], LAMBDA rest :
                {FoldRest(first, SubSeq(rest, 1, i)) : i \in 0..Len(rest)}
                    \cup {visit_expression(first, rest)}))
                \cup VisitedValues(node.first)
                \cup UNION {VisitedValues(node.rest[i].factor) :
                               i \in 1..Len(node.rest)}
      [] node.rule = "factor" -> {Visit(node)} \cup VisitedValues(node.body)
      [] node.rule = "group" -> VisitedValues(node.expr)
      [] OTHER -> {Visit(node)}

\* C30: in every Filter the compiler makes, at every nesting depth and after
\* any sequence of AND / OR / NOT compositions, should is never present
\* together with must or must_not.  This holds of the filter returned and of
\* every filter made on the way, so no operand of an AND-merge is a mixed
\* filter and the mixed-filter branch of collect_conditions is never taken.
C30_NoMixedFilter ==
    (pc = "done" /\ IsFilter(result)) =>
        /\ NoMixedFilter(result)
        /\ \A v \in VisitedValues(GrammarParse(input).node) : NoMixedFilter(v)

\* C30 witness: `( a OR b ) AND NOT c` was compiled: the AND-merge took a
\* pure should filter on the left and a pure must_not filter on the right.
C30_Witness ==
    /\ pc = "done"
    /\ input = <<"(", "=", "OR", "=", ")", "AND", "NOT", "=">>
    /\ IsFilter(result)
    /\ Len(Items(result.must)) = 1 /\ PureShould(result.must.items[1])
    /\ Len(Items(result.must_not)) = 1
    /\ \E v \in VisitedValues(GrammarParse(input).node) : PureMustNot(v)

====
